---------------------------- MODULE Spec2Model ----------------------------
(***************************************************************************)
(* CapyChop: the reward-computation and claim-authorization pipeline.      *)
(*                                                                         *)
(*   - the voucher signer (server/signer.js) and the voucher endpoints,    *)
(*   - the StarsToken ledger contract (claimStars, claimChops, epochs),    *)
(*   - the reward curve calculators and the Merkle distribution builder,   *)
(*   - the epoch rollover coordinator (auto-generate-rewards handler).     *)
(*                                                                         *)
(* One set of variables holds the whole system; each specification below   *)
(* (VoucherSpec, ...) drives the part of it that a group of properties is  *)
(* about and leaves the rest at its initial value.                         *)
(***************************************************************************)
EXTENDS Integers, Sequences, FiniteSets, TLC

(***************************************************************************)
(* Bounds of the model.                                                    *)
(***************************************************************************)
MaxWeeks == 1
MaxVouchers == 1
MaxRequests == 2
MaxPlayers == 3

(***************************************************************************)
(* Program constants.                                                      *)
(***************************************************************************)
ValidityWindow == 3600
SevenDays == 604800
OneHour == 3600
ChainId == 656476
WrongChainId == ChainId + 1
DeployTime == 1000000
DefaultEmission == 10000

Users == {"alice", "bob"}
GameSignerKey == "GAME_SIGNER_PRIVATE_KEY"
AttackerKey == "attacker key"
StarsAddress == "StarsToken"
OtherAddress == "OtherContract"
ZeroAddress == "0x0"
NoArtifact == [built |-> FALSE]

Nonces == {1, 2}
Amounts == {1, 2}
Epochs == 1..(MaxWeeks + 1)
MsChoices == {0, 999}
CooldownChoices == {0, 1}

\* The instants at which something happens: the deployment, one validity
\* window later, one second after that, and the start of each later week
Offsets == {0, ValidityWindow, ValidityWindow + 1}
Instants == { DeployTime + o : o \in Offsets } \cup
            { DeployTime + w * SevenDays : w \in 1..MaxWeeks }

VARIABLES
    now,                \* block.timestamp, and the server clock in seconds
    \* ---- StarsToken storage
    currentEpoch, lastResetTimestamp, epochDuration,
    starsByEpoch, totalStarsByEpoch,
    cooldownHours, lastClaimTime,
    gameSigner, usedNonces,
    paused,
    \* ---- the signer process and the vouchers it has handed out
    signerEnv,          \* CHAIN_ID and STARS_CONTRACT_ADDRESS of the signer
    vouchers,           \* the vouchers issued so far
    credited,           \* history: the successful claims, as <<sender, nonce, amount>> counts
    lastCall,           \* history: if the last step was a claimStars call, its
                        \* outcome, whether it carried an issued signature and
                        \* the fields signed for it, and the contract state
                        \* before the call
    \* ---- the voucher issuance endpoints (server.js, api/claim-stars)
    millis,             \* millisecond part of Date.now()
    signerLoaded,       \* server.js: the dynamic import of the signer is done
    serverProcess,      \* server.js: whether GAME_SIGNER_PRIVATE_KEY is set,
                        \* whether the import has settled, and whether the
                        \* process is up and listening
    nonceCounter,       \* api/claim-stars: the module-level counter
    pending,            \* server.js: the handlers suspended at the await, as
                        \* positions in signed
    signed,             \* the calls of generateStarClaimSignature, oldest first
    requests,           \* number of requests received so far
    response,           \* the response sent last
    \* ---- the Merkle distribution builder
    allocations,        \* the rewards handed to generateMerkleTree
    artifact,           \* what generateMerkleTree returned, or NoArtifact
    lastVerify,         \* history: the last proof check and its result
    \* ---- StarsToken storage for the Chops rewards, and ChopsToken
    epochMerkleRoots, hasClaimedChops, chopsContract,
    chopsMinter,        \* ChopsToken: StarsToken holds MINTER_ROLE
    chopsBalance,       \* ChopsToken: the balances
    lastChops,          \* history: if the last step was a claimChops call,
                        \* its arguments and outcome and the state before it
    \* ---- calculateRewards
    players,            \* the players handed to calculateRewards
    totalEmission,      \* its totalEmission, in whole tokens
    curveExponent,      \* its curveExponent, as a fraction
    calculated,         \* what calculateRewards returned, and which of the
                        \* two implementations did
    \* ---- the events of StarsToken, and the reward coordinator
    starsClaimed,       \* the StarsClaimed events emitted, oldest first
    blobs,              \* the blob store: the rewards file of each epoch
    cronEnv,            \* the environment of the coordinator and the script
    cycle               \* the runs of the coordinator's handler and of the
                        \* generator script: where each is, and its locals

ledgerVars == <<currentEpoch, lastResetTimestamp, epochDuration, starsByEpoch,
                totalStarsByEpoch, cooldownHours, lastClaimTime, gameSigner,
                usedNonces, paused>>
signerVars == <<signerEnv, vouchers>>
issueVars == <<millis, signerLoaded, serverProcess, nonceCounter, pending,
               signed, requests, response>>
merkleVars == <<allocations, artifact, lastVerify>>
chopsVars == <<epochMerkleRoots, hasClaimedChops, chopsContract, chopsMinter,
               chopsBalance>>
rewardVars == <<players, totalEmission, curveExponent, calculated>>
cycleVars == <<blobs, cronEnv, cycle>>
vars == <<now, ledgerVars, signerVars, credited, lastCall, issueVars,
          merkleVars, chopsVars, lastChops, rewardVars, starsClaimed,
          cycleVars>>

\* What the steps of the voucher protocol, and of the issuance endpoints,
\* leave alone
offClaimStars == <<issueVars, merkleVars, chopsVars, lastChops, rewardVars,
                   cycleVars>>
offVoucher == <<offClaimStars, starsClaimed>>
offIssue == <<now, ledgerVars, signerVars, credited, lastCall, merkleVars,
              chopsVars, lastChops, rewardVars, starsClaimed, cycleVars>>
offMerkle == <<now, ledgerVars, signerVars, credited, lastCall, issueVars,
               hasClaimedChops, chopsContract, chopsMinter, chopsBalance,
               lastChops, rewardVars, starsClaimed, cycleVars>>
\* What the steps on the Chops rewards leave alone
offChops == <<signerVars, credited, lastCall, issueVars, rewardVars,
              starsClaimed, cycleVars>>

(***************************************************************************)
(* Numbers.  A uint256 or a BigInt is a natural number of any size, held   *)
(* as its digits in base 2^15, least significant first, the last one not   *)
(* 0; zero is the empty sequence.  A JavaScript number is an IEEE 754      *)
(* double, m * 2^e with m of 53 binary digits, and every operation on      *)
(* doubles rounds its exact result to the nearest double, ties to even.    *)
(***************************************************************************)
Radix == 2 ^ 15

RECURSIVE BigOf(_)
BigOf(n) == IF n = 0 THEN <<>> ELSE <<n % Radix>> \o BigOf(n \div Radix)

Digit(a, i) == IF i >= 1 /\ i <= Len(a) THEN a[i] ELSE 0

\* b without its zeros at the top
Trim(b) ==
    SubSeq(b, 1, IF \A i \in DOMAIN b : b[i] = 0 THEN 0
                 ELSE CHOOSE i \in DOMAIN b :
                          b[i] # 0 /\ \A j \in (i + 1)..Len(b) : b[j] = 0)

\* a + b: a carry enters digit i from the nearest digit below that makes
\* one, through digits that pass it on
BigAdd(a, b) ==
    LET n == IF Len(a) < Len(b) THEN Len(b) ELSE Len(a)
        sum == [i \in 1..(n + 1) |-> Digit(a, i) + Digit(b, i)]
        carry == [i \in 1..(n + 1) |->
                     IF \E j \in 1..(i - 1) :
                            /\ sum[j] >= Radix
                            /\ \A k \in (j + 1)..(i - 1) : sum[k] = Radix - 1
                     THEN 1 ELSE 0]
    IN  Trim([i \in 1..(n + 1) |-> (sum[i] + carry[i]) % Radix])

\* a - b for a >= b
BigSub(a, b) ==
    LET diff == [i \in 1..Len(a) |-> a[i] - Digit(b, i)]
        borrow == [i \in 1..Len(a) |->
                      IF \E j \in 1..(i - 1) :
                             /\ diff[j] < 0
                             /\ \A k \in (j + 1)..(i - 1) : diff[k] = 0
                      THEN 1 ELSE 0]
    IN  Trim([i \in 1..Len(a) |-> (diff[i] - borrow[i] + Radix) % Radix])

BigLess(a, b) ==
    IF Len(a) # Len(b) THEN Len(a) < Len(b)
    ELSE \E i \in 1..Len(a) :
             a[i] < b[i] /\ \A j \in (i + 1)..Len(a) : a[j] = b[j]

\* a * c for c <= 2^15: the low halves of the digits' products plus the
\* high halves one place up
BigMulSmall(a, c) ==
    BigAdd([i \in 1..Len(a) |-> (a[i] * c) % Radix],
           <<0>> \o [i \in 1..Len(a) |-> (a[i] * c) \div Radix])

\* the quotient's digits, the most significant first, then the remainder
RECURSIVE BigDivFrom(_, _, _, _)
BigDivFrom(a, c, i, rem) ==
    IF i = 0 THEN <<rem>>
    ELSE <<(rem * Radix + a[i]) \div c>>
             \o BigDivFrom(a, c, i - 1, (rem * Radix + a[i]) % c)
\* a divided by c < 2^15: quotient and remainder
BigDivSmall(a, c) ==
    LET out == BigDivFrom(a, c, Len(a), 0)
    IN  [q |-> Trim([i \in 1..Len(a) |-> out[Len(a) + 1 - i]]),
         r |-> out[Len(a) + 1]]

BitsOfDigit(d) ==
    CHOOSE k \in 0..15 : (2 ^ k) > d /\ (k = 0 \/ (2 ^ (k - 1)) <= d)
BitLength(a) ==
    IF Len(a) = 0 THEN 0 ELSE 15 * (Len(a) - 1) + BitsOfDigit(a[Len(a)])

\* a * 2^s
ShiftLeft(a, s) ==
    [i \in 1..(s \div 15) |-> 0]
        \o Trim([i \in 1..(Len(a) + 1) |->
                    ((Digit(a, i) * (2 ^ (s % 15))) % Radix)
                        + (Digit(a, i - 1) \div (2 ^ (15 - (s % 15))))])
\* the whole part of a / 2^s
ShiftRight(a, s) ==
    Trim([i \in 1..(Len(a) - (s \div 15)) |->
             (Digit(a, i + (s \div 15)) \div (2 ^ (s % 15)))
                 + ((Digit(a, i + (s \div 15) + 1) % (2 ^ (s % 15)))
                        * (2 ^ (15 - (s % 15))))])
\* the binary digit of weight 2^(i-1)
Bit(a, i) ==
    (Digit(a, ((i - 1) \div 15) + 1) \div (2 ^ ((i - 1) % 15))) % 2
\* some binary digit of weight below 2^s is 1
AnyBelow(a, s) ==
    \/ \E i \in 1..(s \div 15) : Digit(a, i) # 0
    \/ Digit(a, (s \div 15) + 1) % (2 ^ (s % 15)) # 0

\* A double is m * 2^e with m of 53 binary digits, or zero.  The double
\* nearest to (M + f) * 2^e, ties to even, where f in [0, 1) is zero iff
\* ~sticky
DoubleZero == [m |-> <<>>, e |-> 0]
RoundToDouble(M, e, sticky) ==
    LET length == BitLength(M)
    IN  IF length = 0 THEN DoubleZero
        ELSE IF length <= 53
        THEN [m |-> ShiftLeft(M, 53 - length), e |-> e - (53 - length)]
        ELSE LET s == length - 53
                 kept == ShiftRight(M, s)
                 guard == Bit(M, s) = 1
                 rest == sticky \/ AnyBelow(M, s - 1)
                 up == guard /\ (rest \/ Bit(kept, 1) = 1)
                 rounded == IF up THEN BigAdd(kept, <<1>>) ELSE kept
             IN  IF BitLength(rounded) = 54
                 THEN [m |-> ShiftRight(rounded, 1), e |-> e + s + 1]
                 ELSE [m |-> rounded, e |-> e + s]

DoubleOf(n) == RoundToDouble(BigOf(n), 0, FALSE)

\* x + y
DoubleAdd(x, y) ==
    IF Len(x.m) = 0 THEN y
    ELSE IF Len(y.m) = 0 THEN x
    ELSE LET e == IF x.e < y.e THEN x.e ELSE y.e
         IN  RoundToDouble(BigAdd(ShiftLeft(x.m, x.e - e),
                                  ShiftLeft(y.m, y.e - e)), e, FALSE)

\* x * c for a whole c < 2^15
DoubleMulSmall(x, c) == RoundToDouble(BigMulSmall(x.m, c), x.e, FALSE)

\* x * 1e18, 1e18 being 15625^3 * 2^18
DoubleMulE18(x) ==
    RoundToDouble(BigMulSmall(BigMulSmall(BigMulSmall(x.m, 15625), 15625),
                              15625), x.e + 18, FALSE)

\* One digit of a quotient by d, whose last digit is at least 2^14: the
\* largest q with q * d <= cur, at most 2 below the estimate that the two
\* top digits give
QuotientDigit(cur, d) ==
    LET n == Len(d)
        top == (IF Len(cur) > n THEN cur[n + 1] ELSE 0) * Radix
                   + (IF Len(cur) >= n THEN cur[n] ELSE 0)
        guess == IF top \div d[n] >= Radix THEN Radix - 1 ELSE top \div d[n]
    IN  IF ~BigLess(cur, BigMulSmall(d, guess)) THEN guess
        ELSE IF ~BigLess(cur, BigMulSmall(d, guess - 1)) THEN guess - 1
        ELSE guess - 2

\* long division of a by d from the digit i down: the quotient's digits,
\* the most significant first, then the remainder
RECURSIVE BigDivDigits(_, _, _, _)
BigDivDigits(a, d, i, rem) ==
    IF i = 0 THEN <<rem>>
    ELSE LET cur == Trim(<<a[i]>> \o rem)
             digit == QuotientDigit(cur, d)
         IN  <<digit>> \o BigDivDigits(a, d, i - 1,
                                       BigSub(cur, BigMulSmall(d, digit)))

\* a / b for b > 0: the quotient, and whether it is exact
BigDiv(a, b) ==
    LET s == 15 - BitsOfDigit(b[Len(b)])
        num == ShiftLeft(a, s)
        out == BigDivDigits(num, ShiftLeft(b, s), Len(num), <<>>)
    IN  [q |-> Trim([i \in 1..Len(num) |-> out[Len(num) + 1 - i]]),
         exact |-> Len(out[Len(num) + 1]) = 0]

\* x / y
DoubleDiv(x, y) ==
    IF Len(x.m) = 0 \/ Len(y.m) = 0 THEN DoubleZero
    ELSE LET out == BigDiv(ShiftLeft(x.m, 60), y.m)
         IN  RoundToDouble(out.q, x.e - y.e - 60, ~out.exact)

\* Newton's iteration for the whole part of the square root of n, from a
\* guess s above it
RECURSIVE SqrtFrom(_, _)
SqrtFrom(n, s) ==
    LET next == ShiftRight(BigAdd(s, BigDiv(n, s).q), 1)
    IN  IF BigLess(next, s) THEN SqrtFrom(n, next) ELSE s

\* s * s = n, for s the whole part of the square root of n
IsSquareOf(n, s) ==
    LET out == BigDiv(n, s)
    IN  out.exact /\ out.q = s

\* The square root of base^3, correctly rounded
SqrtOfCube(base) ==
    LET n == ShiftLeft(BigOf(base * base * base), 108)
        s == SqrtFrom(n, ShiftLeft(<<1>>, (BitLength(n) + 1) \div 2))
    IN  RoundToDouble(s, -54, ~IsSquareOf(n, s))
\* base^(3/2) for the bases of the model, computed once
PowThreeHalves == [base \in 1..MaxPlayers |-> SqrtOfCube(base)]

\* Number.MIN_VALUE, 2^-1074, the smallest number above zero
MinValue == [num |-> 1, den |-> 1, scale |-> -1074]

\* Math.pow(base, exponent) for a whole base of one or more and an exponent
\* of 1, 3/2 or 2, given as a fraction, or of Number.MIN_VALUE: base to that
\* power is above 1 by less than 2^-1000, and the double nearest to it is 1
MathPow(base, exponent) ==
    IF exponent = MinValue THEN DoubleOf(1)
    ELSE IF exponent = [num |-> 1, den |-> 1] THEN DoubleOf(base)
    ELSE IF exponent = [num |-> 2, den |-> 1] THEN DoubleOf(base * base)
    ELSE PowThreeHalves[base]

\* Math.floor, as a natural number
MathFloor(x) ==
    IF Len(x.m) = 0 THEN <<>>
    ELSE IF x.e >= 0 THEN ShiftLeft(x.m, x.e)
    ELSE ShiftRight(x.m, -x.e)

\* x.toFixed(4) without its point: the whole n with n / 10^4 nearest to x,
\* the larger of two
ToFixed4(x) ==
    LET M == BigMulSmall(x.m, 10000)
    IN  IF x.e >= 0 THEN ShiftLeft(M, x.e)
        ELSE IF Bit(M, -x.e) = 1
             THEN BigAdd(ShiftRight(M, -x.e), <<1>>)
             ELSE ShiftRight(M, -x.e)

\* ethers.parseEther of a string of four decimals, given without its point:
\* n * 10^14
ParseEther4(n) ==
    BigMulSmall(BigMulSmall(BigMulSmall(BigMulSmall(n, 100), 10000), 10000),
                10000)

\* BigInt.toString(): the decimal digits, the most significant first
RECURSIVE DecimalDigits(_)
DecimalDigits(a) ==
    IF Len(a) = 0 THEN <<>>
    ELSE LET d == BigDivSmall(a, 10)
         IN  Append(DecimalDigits(d.q), d.r)
DecimalString(a) == IF Len(a) = 0 THEN <<0>> ELSE DecimalDigits(a)

\* BigInt(string), and the uint256 that ethers encodes from a decimal string:
\* four digits at a time from the most significant, zeros in front adding
\* nothing
RECURSIVE SmallDecimal(_, _, _)
SmallDecimal(digits, from, to) ==
    IF to < from THEN 0
    ELSE SmallDecimal(digits, from, to - 1) * 10 + digits[to]
RECURSIVE ParseFrom(_, _, _)
ParseFrom(digits, i, acc) ==
    IF i > Len(digits) THEN acc
    ELSE LET to == IF i + 3 < Len(digits) THEN i + 3 ELSE Len(digits)
             group == SmallDecimal(digits, i, to)
         IN  IF Len(acc) = 0 /\ group = 0 THEN ParseFrom(digits, to + 1, acc)
             ELSE ParseFrom(digits, to + 1,
                            BigAdd(BigMulSmall(acc, 10 ^ (to - i + 1)),
                                   BigOf(group)))
ParseDecimal(digits) == ParseFrom(digits, 1, BigOf(0))


(***************************************************************************)
(* Hashing and signatures.  keccak256 is modelled as a collision-free      *)
(* constructor; the packed encoding keeps, for each field, its width in    *)
(* bytes and its value, in the order the fields are concatenated.          *)
(***************************************************************************)
Width(type) == IF type = "address" THEN 20 ELSE 32

EncodePacked(types, values) ==
    [i \in 1..Len(types) |-> <<Width(types[i]), values[i]>>]

Keccak256(bytes) == <<"keccak256", bytes>>

SolidityPackedKeccak256(types, values) == Keccak256(EncodePacked(types, values))

EthPrefix(len) == <<"\\x19Ethereum Signed Message:\\n", len>>

\* ethers hashMessage(bytes): prefix with the byte length of the message
HashMessage(message, len) == Keccak256(<<EthPrefix(len), message>>)

\* OpenZeppelin MessageHashUtils.toEthSignedMessageHash(bytes32)
ToEthSignedMessageHash(hash) == Keccak256(<<EthPrefix(32), hash>>)

AddressOf(key) == IF key = GameSignerKey THEN "gameSigner" ELSE "attacker"

EcdsaSign(key, digest) == [key |-> key, digest |-> digest]

\* ECDSA.recover: the signing address for the signed digest, and an
\* unrelated address for every other digest
Recover(digest, signature) ==
    IF signature.digest = digest THEN AddressOf(signature.key) ELSE "unrelated"

\* wallet.signMessage(ethers.getBytes(messageHash)): a 32-byte message
SignMessage(key, messageHash) == EcdsaSign(key, HashMessage(messageHash, 32))

(***************************************************************************)
(* server/signer.js                                                        *)
(***************************************************************************)
\* The hash with the deadline packed before the nonce
SignerMessageHashReordered(userAddress, amount, nonce, deadline, env) ==
    SolidityPackedKeccak256(
        <<"address", "uint256", "uint256", "uint256", "uint256", "address">>,
        <<userAddress, amount, deadline, nonce, env.chainId, env.contract>>)

SignerMessageHash(userAddress, amount, nonce, deadline, env) ==
    SolidityPackedKeccak256(
        <<"address", "uint256", "uint256", "uint256", "uint256", "address">>,
        <<userAddress, amount, nonce, deadline, env.chainId, env.contract>>)

\* Date.now() is a millisecond count, kept as [sec, ms] with 0 <= ms < 1000
\* (the count itself, sec * 1000 + ms, does not fit a machine integer of
\* the checker).  Math.floor(Date.now() / 1000) is then the sec part.
FloorDivThousand(dateNow) == dateNow.sec + (dateNow.ms \div 1000)

SignerDeadline(dateNow) == FloorDivThousand(dateNow) + ValidityWindow

\* generateStarClaimSignature(userAddress, amount, nonce) at Date.now() = dateNow
GenerateStarClaimSignature(userAddress, amount, nonce, dateNow, env) ==
    LET deadline == SignerDeadline(dateNow)
        messageHash == SignerMessageHash(userAddress, amount, nonce, deadline, env)
    IN  [ signature |-> SignMessage(GameSignerKey, messageHash),
          nonce |-> nonce,
          deadline |-> deadline,
          amount |-> amount ]

(***************************************************************************)
(* StarsToken (api/get-chops-reward.js, the Solidity part)                 *)
(***************************************************************************)
\* The window counted as elapsed only after its last second
ResetDueAfter == now > lastResetTimestamp + epochDuration

\* _checkAndResetEpoch: the epoch and reset time after the call
ResetDue == now >= lastResetTimestamp + epochDuration

EpochAfterCheck == IF ResetDue THEN currentEpoch + 1 ELSE currentEpoch

LastResetAfterCheck == IF ResetDue THEN now ELSE lastResetTimestamp

ContractMessageHash(sender, amount, nonce, deadline, chainid, self) ==
    Keccak256(EncodePacked(
        <<"address", "uint256", "uint256", "uint256", "uint256", "address">>,
        <<sender, amount, nonce, deadline, chainid, self>>))

\* The signature check without the caller, the chain and the contract
SignatureValidUnbound(sender, amount, nonce, deadline, signature) ==
    \E s \in Users, env \in { [chainId |-> ChainId, contract |-> StarsAddress],
                              [chainId |-> ChainId + 1, contract |-> StarsAddress],
                              [chainId |-> ChainId, contract |-> "OtherContract"] } :
        Recover(ToEthSignedMessageHash(
                    ContractMessageHash(s, amount, nonce, deadline,
                                        env.chainId, env.contract)),
                signature) = gameSigner

SignatureValid(sender, amount, nonce, deadline, signature) ==
    LET messageHash == ContractMessageHash(sender, amount, nonce, deadline,
                                           ChainId, StarsAddress)
        ethSignedMessageHash == ToEthSignedMessageHash(messageHash)
    IN  Recover(ethSignedMessageHash, signature) = gameSigner

\* claimStars without the used-nonce require
ClaimStarsOutcomeNoNonce(sender, amount, nonce, deadline, signature) ==
    IF paused THEN "EnforcedPause"
    ELSE IF ~(amount > 0) THEN "Amount must be greater than 0"
    ELSE IF ~(now <= deadline) THEN "Signature expired"
    ELSE IF ~(now >= lastClaimTime[sender] + cooldownHours * OneHour)
         THEN "Cooldown period not elapsed"
    ELSE IF ~SignatureValid(sender, amount, nonce, deadline, signature)
         THEN "Invalid signature"
    ELSE "ok"

\* claimStars with the deadline itself counted as expired
ClaimStarsOutcomeStrict(sender, amount, nonce, deadline, signature) ==
    IF paused THEN "EnforcedPause"
    ELSE IF ~(amount > 0) THEN "Amount must be greater than 0"
    ELSE IF ~(now < deadline) THEN "Signature expired"
    ELSE IF usedNonces[sender][nonce] THEN "Nonce already used"
    ELSE IF ~(now >= lastClaimTime[sender] + cooldownHours * OneHour)
         THEN "Cooldown period not elapsed"
    ELSE IF ~SignatureValid(sender, amount, nonce, deadline, signature)
         THEN "Invalid signature"
    ELSE "ok"

\* claimStars without the cooldown require
ClaimStarsOutcomeNoCooldown(sender, amount, nonce, deadline, signature) ==
    IF paused THEN "EnforcedPause"
    ELSE IF ~(amount > 0) THEN "Amount must be greater than 0"
    ELSE IF ~(now <= deadline) THEN "Signature expired"
    ELSE IF usedNonces[sender][nonce] THEN "Nonce already used"
    ELSE IF ~SignatureValid(sender, amount, nonce, deadline, signature)
         THEN "Invalid signature"
    ELSE "ok"

\* The first require of claimStars that fails, or "ok"
ClaimStarsOutcome(sender, amount, nonce, deadline, signature) ==
    IF paused THEN "EnforcedPause"
    ELSE IF ~(amount > 0) THEN "Amount must be greater than 0"
    ELSE IF ~(now <= deadline) THEN "Signature expired"
    ELSE IF usedNonces[sender][nonce] THEN "Nonce already used"
    ELSE IF ~(now >= lastClaimTime[sender] + cooldownHours * OneHour)
         THEN "Cooldown period not elapsed"
    ELSE IF ~SignatureValid(sender, amount, nonce, deadline, signature)
         THEN "Invalid signature"
    ELSE "ok"


(***************************************************************************)
(* Initial state: the contract as its constructor leaves it, the signer    *)
(* process loaded with its environment, no voucher issued.                 *)
(***************************************************************************)
\* lastCall when the last step was no claimStars transaction
NoCall == [outcome |-> "none", issuedSignature |-> FALSE, asSigned |-> FALSE,
           before |-> <<>>]

DeployedEnv == [chainId |-> ChainId, contract |-> StarsAddress]

SignerEnvs == { DeployedEnv,
                [chainId |-> WrongChainId, contract |-> StarsAddress],
                [chainId |-> ChainId, contract |-> OtherAddress] }

LedgerInit ==
    /\ currentEpoch = 1
    /\ lastResetTimestamp = DeployTime
    /\ epochDuration = SevenDays
    /\ starsByEpoch = [u \in Users |-> [e \in Epochs |-> 0]]
    /\ totalStarsByEpoch = [e \in Epochs |-> 0]
    /\ cooldownHours = 0
    /\ lastClaimTime = [u \in Users |-> 0]
    /\ gameSigner = AddressOf(GameSignerKey)
    /\ usedNonces = [u \in Users |-> [n \in Nonces |-> FALSE]]
    /\ paused = FALSE

NoResponse == [endpoint |-> "none", status |-> 0, body |-> <<>>]

NoVerify == [acted |-> FALSE]

\* The builder before it has been given anything
MerkleIdle ==
    /\ allocations = <<>>
    /\ artifact = NoArtifact
    /\ lastVerify = NoVerify

\* bytes32(0)
ZeroRoot == <<"zero", <<>>>>
ChopsAddress == "ChopsToken"
ChopsEpochs == 0..(MaxWeeks + 2)
NoChops == [acted |-> FALSE]

\* The storage for the Chops rewards after the constructors
ChopsInit ==
    /\ epochMerkleRoots = [e \in ChopsEpochs |-> ZeroRoot]
    /\ hasClaimedChops = [e \in ChopsEpochs |-> [u \in Users |-> FALSE]]
    /\ chopsContract = ZeroAddress
    /\ chopsMinter = FALSE
    /\ chopsBalance = [u \in Users |-> BigOf(0)]
    /\ lastChops = NoChops

\* CURVE_EXPONENT = 1.5
DefaultExponent == [num |-> 3, den |-> 2]
NoRewards == [by |-> "none", list |-> <<>>]

\* calculateRewards not called
RewardIdle ==
    /\ players = <<>>
    /\ totalEmission = DefaultEmission
    /\ curveExponent = DefaultExponent
    /\ calculated = NoRewards

\* The programs that produce a distribution: the coordinator's handler, run
\* by the scheduler, and the generator script, run by the operator
Coordinators == {"cron"}
Generators == {"cli"}
Runners == Coordinators \cup Generators

\* A program between two runs; previousEpoch is the epoch of the run, the
\* epochNumber of the script
IdleCycle ==
    [ pc |-> "idle", currentEpoch |-> 0, lastResetTimestamp |-> 0,
      resetTo |-> 0, previousEpoch |-> -1, events |-> 0, addresses |-> <<>>,
      stars |-> <<>>, found |-> <<>>, output |-> NoArtifact, status |-> 0, message |-> "",
      autoSetOnChain |-> FALSE ]

\* A variable of process.env and a header of a request: <<>> when it is not
\* there (undefined), <<value>> when it is
Unset == <<>>
CronSecret == "s3cret"

\* `${value}` of a template literal: undefined becomes the word
Interpolated(value) == IF value = Unset THEN "undefined" ELSE value[1]

\* No events, nothing stored, no program ever run
CycleIdle ==
    /\ starsClaimed = <<>>
    /\ blobs = [e \in ChopsEpochs |-> NoArtifact]
    /\ cronEnv = [signerKey |-> TRUE, cronSecret |-> <<CronSecret>>,
                  blobToken |-> TRUE]
    /\ cycle = [c \in Runners |-> IdleCycle]

\* The endpoints' processes freshly started
\* server.js run to its last line: the import is started, app.listen is done
StartedProcess(signerKey) ==
    [signerKey |-> signerKey, importSettled |-> FALSE, listening |-> TRUE]

EndpointInit ==
    /\ millis = 0
    /\ signerLoaded = FALSE
    /\ serverProcess = StartedProcess(TRUE)
    /\ nonceCounter = 1
    /\ pending = {}
    /\ signed = <<>>
    /\ requests = 0
    /\ response = NoResponse

VoucherInit ==
    /\ now = DeployTime
    /\ LedgerInit
    /\ signerEnv \in SignerEnvs
    /\ vouchers = {}
    /\ credited = [k \in Users \X Nonces |-> 0]
    /\ lastCall = NoCall
    /\ EndpointInit
    /\ MerkleIdle
    /\ ChopsInit
    /\ RewardIdle
    /\ CycleIdle

(***************************************************************************)
(* Actions                                                                 *)
(***************************************************************************)
\* Time passes (blocks are mined, the server clock advances)
Tick(t) ==
    /\ t > now
    /\ now' = t
    /\ lastCall' = NoCall
    /\ UNCHANGED <<ledgerVars, signerVars, credited, offVoucher>>

\* The signer hands out a voucher: generateStarClaimSignature(c, a, n)
IssueVoucher(c, a, n, ms) ==
    /\ Cardinality(vouchers) < MaxVouchers
    /\ LET v == GenerateStarClaimSignature(c, a, n, [sec |-> now, ms |-> ms],
                                           signerEnv)
       IN  vouchers' = vouchers \cup
               { [claimant |-> c, issuedAt |-> now,
                  signature |-> v.signature, nonce |-> v.nonce,
                  deadline |-> v.deadline, amount |-> v.amount] }
    /\ lastCall' = NoCall
    /\ UNCHANGED <<now, ledgerVars, signerEnv, credited, offVoucher>>

\* The fields a voucher was signed for, as the contract would have to see them
SignedFields(v) ==
    <<v.claimant, v.amount, v.nonce, v.deadline, signerEnv.chainId,
      signerEnv.contract>>

\* claimStars with the balances updated for the epoch as it was at entry,
\* before _checkAndResetEpoch
ClaimStarsCreditsBeforeReset(sender, amount, nonce, deadline, signature) ==
    LET outcome == ClaimStarsOutcome(sender, amount, nonce, deadline, signature)
        epoch == currentEpoch
    IN  /\ lastCall' =
              [ outcome |-> outcome,
                issuedSignature |-> \E v \in vouchers : v.signature = signature,
                asSigned |-> \E v \in vouchers :
                    /\ v.signature = signature
                    /\ SignedFields(v) = <<sender, amount, nonce, deadline,
                                           ChainId, StarsAddress>>,
                before |-> <<ledgerVars, credited>> ]
        /\ IF outcome = "ok"
           THEN /\ currentEpoch' = EpochAfterCheck
                /\ lastResetTimestamp' = LastResetAfterCheck
                /\ usedNonces' = [usedNonces EXCEPT ![sender][nonce] = TRUE]
                /\ starsByEpoch' =
                       [starsByEpoch EXCEPT ![sender][epoch] = @ + amount]
                /\ totalStarsByEpoch' =
                       [totalStarsByEpoch EXCEPT ![epoch] = @ + amount]
                /\ lastClaimTime' = [lastClaimTime EXCEPT ![sender] = now]
                /\ credited' = [credited EXCEPT ![<<sender, nonce>>] = @ + 1]
                /\ starsClaimed' =
                       Append(starsClaimed,
                              [user |-> sender, amount |-> amount,
                               epoch |-> epoch, nonce |-> nonce])
                /\ UNCHANGED <<epochDuration, cooldownHours, gameSigner, paused>>
           ELSE \* a revert rolls back the whole transaction
                UNCHANGED <<ledgerVars, credited, starsClaimed>>
        /\ UNCHANGED <<now, signerVars, offClaimStars>>

\* claimStars that credits the caller and leaves the epoch's total alone
ClaimStarsTotalUntouched(sender, amount, nonce, deadline, signature) ==
    LET outcome == ClaimStarsOutcome(sender, amount, nonce, deadline, signature)
        epoch == EpochAfterCheck
    IN  /\ lastCall' =
              [ outcome |-> outcome,
                issuedSignature |-> \E v \in vouchers : v.signature = signature,
                asSigned |-> \E v \in vouchers :
                    /\ v.signature = signature
                    /\ SignedFields(v) = <<sender, amount, nonce, deadline,
                                           ChainId, StarsAddress>>,
                before |-> <<ledgerVars, credited>> ]
        /\ IF outcome = "ok"
           THEN /\ currentEpoch' = epoch
                /\ lastResetTimestamp' = LastResetAfterCheck
                /\ usedNonces' = [usedNonces EXCEPT ![sender][nonce] = TRUE]
                /\ starsByEpoch' =
                       [starsByEpoch EXCEPT ![sender][epoch] = @ + amount]
                /\ totalStarsByEpoch' = totalStarsByEpoch
                /\ lastClaimTime' = [lastClaimTime EXCEPT ![sender] = now]
                /\ credited' = [credited EXCEPT ![<<sender, nonce>>] = @ + 1]
                /\ starsClaimed' =
                       Append(starsClaimed,
                              [user |-> sender, amount |-> amount,
                               epoch |-> epoch, nonce |-> nonce])
                /\ UNCHANGED <<epochDuration, cooldownHours, gameSigner, paused>>
           ELSE \* a revert rolls back the whole transaction
                UNCHANGED <<ledgerVars, credited, starsClaimed>>
        /\ UNCHANGED <<now, signerVars, offClaimStars>>

\* A claimStars transaction sent by `sender`
ClaimStars(sender, amount, nonce, deadline, signature) ==
    LET outcome == ClaimStarsOutcome(sender, amount, nonce, deadline, signature)
        epoch == EpochAfterCheck
    IN  /\ lastCall' =
              [ outcome |-> outcome,
                issuedSignature |-> \E v \in vouchers : v.signature = signature,
                asSigned |-> \E v \in vouchers :
                    /\ v.signature = signature
                    /\ SignedFields(v) = <<sender, amount, nonce, deadline,
                                           ChainId, StarsAddress>>,
                before |-> <<ledgerVars, credited>> ]
        /\ IF outcome = "ok"
           THEN /\ currentEpoch' = epoch
                /\ lastResetTimestamp' = LastResetAfterCheck
                /\ usedNonces' = [usedNonces EXCEPT ![sender][nonce] = TRUE]
                /\ starsByEpoch' =
                       [starsByEpoch EXCEPT ![sender][epoch] = @ + amount]
                /\ totalStarsByEpoch' =
                       [totalStarsByEpoch EXCEPT ![epoch] = @ + amount]
                /\ lastClaimTime' = [lastClaimTime EXCEPT ![sender] = now]
                /\ credited' = [credited EXCEPT ![<<sender, nonce>>] = @ + 1]
                /\ starsClaimed' =
                       Append(starsClaimed,
                              [user |-> sender, amount |-> amount,
                               epoch |-> epoch, nonce |-> nonce])
                /\ UNCHANGED <<epochDuration, cooldownHours, gameSigner, paused>>
           ELSE \* a revert rolls back the whole transaction
                UNCHANGED <<ledgerVars, credited, starsClaimed>>
        /\ UNCHANGED <<now, signerVars, offClaimStars>>

\* Owner operations
Pause ==
    /\ ~paused
    /\ paused' = TRUE
    /\ lastCall' = NoCall
    /\ UNCHANGED <<now, currentEpoch, lastResetTimestamp, epochDuration,
                   starsByEpoch, totalStarsByEpoch, cooldownHours,
                   lastClaimTime, gameSigner, usedNonces, signerVars, credited,
                   offVoucher>>

Unpause ==
    /\ paused
    /\ paused' = FALSE
    /\ lastCall' = NoCall
    /\ UNCHANGED <<now, currentEpoch, lastResetTimestamp, epochDuration,
                   starsByEpoch, totalStarsByEpoch, cooldownHours,
                   lastClaimTime, gameSigner, usedNonces, signerVars, credited,
                   offVoucher>>

SetCooldownHours(h) ==
    /\ cooldownHours' = h
    /\ cooldownHours' # cooldownHours
    /\ lastCall' = NoCall
    /\ UNCHANGED <<now, currentEpoch, lastResetTimestamp, epochDuration,
                   starsByEpoch, totalStarsByEpoch, paused,
                   lastClaimTime, gameSigner, usedNonces, signerVars, credited,
                   offVoucher>>

\* What a caller can submit.  A call is <<sender, amount, nonce, deadline,
\* signature>>.  Callers know every issued voucher; they submit it as it is,
\* or with one field replaced, or with another voucher's signature, or with
\* a signature over the same fields made with another key.
CallAmounts == {0} \cup Amounts

CallDeadlines == UNION { {v.deadline, v.deadline + 1} : v \in vouchers }

ForgedSignature(v) ==
    SignMessage(AttackerKey,
                SignerMessageHash(v.claimant, v.amount, v.nonce, v.deadline,
                                  DeployedEnv))

CallSignatures ==
    {v.signature : v \in vouchers} \cup {ForgedSignature(v) : v \in vouchers}

CallsFor(v) ==
    { <<s, v.amount, v.nonce, v.deadline, v.signature>> : s \in Users } \cup
    { <<v.claimant, a, v.nonce, v.deadline, v.signature>> : a \in CallAmounts } \cup
    { <<v.claimant, v.amount, n, v.deadline, v.signature>> : n \in Nonces } \cup
    { <<v.claimant, v.amount, v.nonce, v.deadline + 1, v.signature>> } \cup
    { <<v.claimant, v.amount, v.nonce, v.deadline, w.signature>> : w \in vouchers } \cup
    { <<v.claimant, v.amount, v.nonce, v.deadline, ForgedSignature(v)>> }

Calls == UNION { CallsFor(v) : v \in vouchers }

VoucherNext ==
    \/ \E t \in Instants : Tick(t)
    \/ \E c \in Users, a \in Amounts, n \in Nonces, ms \in MsChoices :
            IssueVoucher(c, a, n, ms)
    \/ \E call \in Calls :
            ClaimStars(call[1], call[2], call[3], call[4], call[5])

VoucherSpec == VoucherInit /\ [][VoucherNext]_vars

(***************************************************************************)
(* Properties of the voucher protocol (VoucherSpec)                        *)
(***************************************************************************)
Rejected(outcome) == outcome \notin {"ok", "none"}

\* C1: when the signer is configured with the deployed chain and contract,
\* every voucher it has issued passes the signature check of claimStars
\* when its claimant submits exactly the voucher's fields: the hash the
\* signer signs is the hash the contract rebuilds.
C1_VoucherPassesSignatureCheck ==
    signerEnv = DeployedEnv =>
        \A v \in vouchers :
            /\ SignerMessageHash(v.claimant, v.amount, v.nonce, v.deadline, signerEnv)
                 = ContractMessageHash(v.claimant, v.amount, v.nonce, v.deadline,
                                       ChainId, StarsAddress)
            /\ SignatureValid(v.claimant, v.amount, v.nonce, v.deadline, v.signature)
            /\ ClaimStarsOutcome(v.claimant, v.amount, v.nonce, v.deadline,
                                 v.signature) # "Invalid signature"

\* C1 witness: a claimant has claimed an issued voucher as signed
C1_Witness ==
    /\ lastCall.outcome = "ok"
    /\ lastCall.asSigned
    /\ \E v \in vouchers : usedNonces[v.claimant][v.nonce]

\* C2: a call that carries an issued signature but differs from the signed
\* fields in the caller, the amount, the nonce, the deadline, the chain id
\* or the contract address is rejected, and a rejected call changes nothing
\* in the contract.
C2_MismatchRejected ==
    /\ \A v \in vouchers, s \in Users, a \in CallAmounts, n \in Nonces,
          d \in CallDeadlines :
          <<s, a, n, d, ChainId, StarsAddress>> # SignedFields(v)
              => Rejected(ClaimStarsOutcome(s, a, n, d, v.signature))
    /\ (lastCall.outcome = "ok" /\ lastCall.issuedSignature) => lastCall.asSigned
    /\ Rejected(lastCall.outcome) => <<ledgerVars, credited>> = lastCall.before

\* C2 witness: a call with an issued signature and a changed field reached
\* the signature check and was rejected there
C2_Witness ==
    /\ lastCall.outcome = "Invalid signature"
    /\ lastCall.issuedSignature
    /\ ~lastCall.asSigned

\* C3: a voucher is consumed at most once: no (sender, nonce) is credited
\* twice; after a successful claim by s with nonce n, usedNonces[s][n] is set
\* in every later state and every claimStars by s with nonce n reverts, with
\* 'Nonce already used' whenever the earlier requires pass; the reverted call
\* leaves starsByEpoch, totalStarsByEpoch, lastClaimTime and usedNonces
\* unchanged.
C3_ConsumedAtMostOnce ==
    /\ \A s \in Users, n \in Nonces :
          /\ credited[<<s, n>>] <= 1
          /\ credited[<<s, n>>] = 1 => usedNonces[s][n]
          /\ usedNonces[s][n] =>
               \A a \in CallAmounts, d \in CallDeadlines, sig \in CallSignatures :
                  LET outcome == ClaimStarsOutcome(s, a, n, d, sig)
                  IN  /\ Rejected(outcome)
                      /\ (a > 0 /\ now <= d /\ ~paused)
                            => outcome = "Nonce already used"
    /\ lastCall.outcome = "Nonce already used"
          => <<ledgerVars, credited>> = lastCall.before

\* C3 witness: the claimant replays a voucher that is already consumed
C3_Witness ==
    /\ lastCall.outcome = "Nonce already used"
    /\ lastCall.asSigned
    /\ \E k \in DOMAIN credited : credited[k] = 1

\* C5: every voucher's deadline is its issuance second plus 3600; a call at
\* a block time after its deadline reverts (with 'Signature expired' whenever
\* the earlier checks pass) and changes nothing; a call at a block time up
\* to and including the deadline is never rejected for expiry.
C5_DeadlineWindow ==
    /\ \A v \in vouchers : v.deadline = v.issuedAt + ValidityWindow
    /\ \A call \in Calls :
          LET outcome == ClaimStarsOutcome(call[1], call[2], call[3], call[4],
                                           call[5])
              deadline == call[4]
          IN  /\ now > deadline =>
                    /\ Rejected(outcome)
                    /\ (call[2] > 0 /\ ~paused) => outcome = "Signature expired"
              /\ now <= deadline => outcome # "Signature expired"
    /\ lastCall.outcome = "Signature expired"
          => <<ledgerVars, credited>> = lastCall.before

\* C5 witness: a voucher submitted as signed, after its deadline
C5_Witness ==
    /\ lastCall.outcome = "Signature expired"
    /\ lastCall.asSigned
    /\ \E v \in vouchers : now > v.deadline

(***************************************************************************)
(* The voucher issuance endpoints.  server.js answers POST                 *)
(* /api/claim-stars with a nonce made of the clock and a random draw;      *)
(* the serverless handler api/claim-stars numbers its vouchers with a      *)
(* module-level counter.                                                   *)
(***************************************************************************)

\* What a request body may lack
Undefined == "undefined"
RequestWallets == Users \cup {Undefined}
\* starsEarned, as the sequence of the values present: none or one
NoStars == <<>>
RequestStars == {NoStars} \cup { <<n>> : n \in {-1, 0, 1} }
RandomDraws == {0, 999}
Methods == {"OPTIONS", "GET", "POST"}

\* A nonce is written by its digits in base 1000 under the seconds:
\* <<s, m, r>> is the number (s * 1000 + m) * 1000 + r
DateNow == [sec |-> now, ms |-> millis]
TimeNonce(dateNow, random) == <<dateNow.sec, dateNow.ms, random>>
CounterNonce(counter) == <<0, 0, counter>>

\* The validation without its last test: !walletAddress || !starsEarned
InvalidRequestFalsyOnly(walletAddress, starsEarned) ==
    \/ walletAddress = Undefined
    \/ starsEarned = NoStars
    \/ starsEarned[1] = 0

\* !walletAddress || !starsEarned || starsEarned <= 0
InvalidRequest(walletAddress, starsEarned) ==
    \/ walletAddress = Undefined
    \/ starsEarned = NoStars
    \/ starsEarned[1] = 0
    \/ starsEarned[1] <= 0

ErrorResponse(endpoint, status, error) ==
    [endpoint |-> endpoint, status |-> status, body |-> [error |-> error]]

\* server.js: the dynamic import of the signer completes
SignerImported ==
    /\ serverProcess.listening
    /\ serverProcess.signerKey
    /\ ~signerLoaded
    /\ signerLoaded' = TRUE
    /\ serverProcess' = [serverProcess EXCEPT !.importSettled = TRUE]
    /\ UNCHANGED <<offIssue, millis,
                   nonceCounter, pending, signed, requests, response>>

\* server.js: signer.js throws for the missing key, the import is rejected
\* and nothing handles the rejection.  The runtime either ends the process
\* or only warns, by its handling of unhandled rejections.
SignerImportRejected(exits) ==
    /\ serverProcess.listening
    /\ ~serverProcess.signerKey
    /\ ~serverProcess.importSettled
    /\ serverProcess' = [serverProcess EXCEPT !.importSettled = TRUE,
                                              !.listening = ~exits]
    /\ UNCHANGED <<offIssue, millis, signerLoaded,
                   nonceCounter, pending, signed, requests, response>>

\* server.js: POST /api/claim-stars, up to the await of the signature
ServerClaimStars(walletAddress, starsEarned, random) ==
    /\ serverProcess.listening
    /\ requests < MaxRequests
    /\ requests' = requests + 1
    /\ IF ~signerLoaded
       THEN /\ response' = (ErrorResponse("server", 503,
                                       "Server initializing, try again"))
            /\ UNCHANGED <<pending, signed>>
       ELSE IF InvalidRequest(walletAddress, starsEarned)
       THEN /\ response' = (ErrorResponse("server", 400,
                                       "Invalid request"))
            /\ UNCHANGED <<pending, signed>>
       ELSE LET nonce == TimeNonce(DateNow, random)
                signatureData == GenerateStarClaimSignature(walletAddress,
                                     starsEarned[1], nonce, DateNow, signerEnv)
            IN  /\ signed' = Append(signed, [endpoint |-> "server",
                                             claimant |-> walletAddress,
                                             voucher |-> signatureData])
                /\ pending' = pending \cup {Len(signed) + 1}
                /\ UNCHANGED response
    /\ UNCHANGED <<offIssue, millis,
                   signerLoaded, serverProcess, nonceCounter>>

\* server.js: the signature is there, res.json(signatureData)
ServerRespond(i) ==
    /\ i \in pending
    /\ pending' = pending \ {i}
    /\ response' = ([endpoint |-> "server", status |-> 200,
                                       body |-> signed[i].voucher])
    /\ UNCHANGED <<offIssue, millis,
                   signerLoaded, serverProcess, nonceCounter, signed, requests>>

\* api/claim-stars: the whole handler.  generateStarClaimSignature is not
\* awaited, so the body handed to res.json is a promise, which serialises
\* as the empty object.
PromiseAsJson == [promise |-> "{}"]
CounterClaimStars(method, walletAddress, starsEarned) ==
    /\ requests < MaxRequests
    /\ requests' = requests + 1
    /\ IF method = "OPTIONS"
       THEN /\ response' = ([endpoint |-> "counter",
                                       status |-> 200, body |-> <<>>])
            /\ UNCHANGED <<nonceCounter, signed>>
       ELSE IF method # "POST"
       THEN /\ response' = (ErrorResponse("counter", 405,
                                       "Method not allowed"))
            /\ UNCHANGED <<nonceCounter, signed>>
       ELSE IF InvalidRequest(walletAddress, starsEarned)
       THEN /\ response' = (ErrorResponse("counter", 400,
                                       "Invalid request"))
            /\ UNCHANGED <<nonceCounter, signed>>
       ELSE LET nonce == CounterNonce(nonceCounter)
                signatureData == GenerateStarClaimSignature(walletAddress,
                                     starsEarned[1], nonce, DateNow, signerEnv)
            IN  /\ nonceCounter' = nonceCounter + 1
                /\ signed' = Append(signed, [endpoint |-> "counter",
                                             claimant |-> walletAddress,
                                             voucher |-> signatureData])
                /\ response' = ([endpoint |-> "counter",
                                       status |-> 200, body |-> PromiseAsJson])
    /\ UNCHANGED <<offIssue, millis,
                   signerLoaded, serverProcess, pending>>

\* The server process is started again: the import is redone, the handlers
\* that were suspended are gone
RestartServer ==
    /\ signerLoaded \/ pending # {} \/ serverProcess.importSettled
    /\ signerLoaded' = FALSE
    /\ serverProcess' = StartedProcess(serverProcess.signerKey)
    /\ pending' = {}
    /\ UNCHANGED <<offIssue, millis,
                   nonceCounter, signed, requests, response>>

\* The serverless module is loaded again: let nonceCounter = 1
ColdStart ==
    /\ nonceCounter # 1
    /\ nonceCounter' = 1
    /\ UNCHANGED <<offIssue, millis,
                   signerLoaded, serverProcess, pending, signed, requests,
                   response>>

\* The clock moves on within the second
Millisecond ==
    /\ millis < 999
    /\ millis' = CHOOSE m \in MsChoices : m > millis
    /\ UNCHANGED <<offIssue, signerLoaded, serverProcess, nonceCounter,
                   pending, signed, requests, response>>

IssueInit ==
    /\ now = DeployTime
    /\ LedgerInit
    /\ signerEnv = DeployedEnv
    /\ vouchers = {}
    /\ credited = [k \in Users \X Nonces |-> 0]
    /\ lastCall = NoCall
    /\ millis = 0
    /\ signerLoaded = FALSE
    /\ \E signerKey \in BOOLEAN : serverProcess = StartedProcess(signerKey)
    /\ nonceCounter = 1
    /\ pending = {}
    /\ signed = <<>>
    /\ requests = 0
    /\ response = NoResponse
    /\ MerkleIdle
    /\ ChopsInit
    /\ RewardIdle
    /\ CycleIdle

IssueNext ==
    \/ SignerImported
    \/ \E exits \in BOOLEAN : SignerImportRejected(exits)
    \/ \E w \in RequestWallets, a \in RequestStars, r \in RandomDraws :
           ServerClaimStars(w, a, r)
    \/ \E i \in pending : ServerRespond(i)
    \/ \E m \in Methods, w \in RequestWallets, a \in RequestStars :
           CounterClaimStars(m, w, a)
    \/ RestartServer
    \/ ColdStart
    \/ Millisecond

IssueSpec == IssueInit /\ [][IssueNext]_vars

\* C4: any two vouchers the issuance endpoints sign for the same claimant
\* carry different nonces, under the counter scheme and under the
\* clock-and-random scheme, whatever the interleaving of the requests and
\* across restarts of the process.
C4_NoncesUniquePerClaimant ==
    \A i, j \in 1..Len(signed) :
        (i # j /\ signed[i].claimant = signed[j].claimant)
            => signed[i].voucher.nonce # signed[j].voucher.nonce

(***************************************************************************)
(* The Merkle distribution builder: generateMerkleTree and verifyProof of  *)
(* the generator script and of the coordinator, over merkletreejs with     *)
(* sortPairs.  A hash is the term keccak256(bytes); the order of two       *)
(* hashes, which the library takes from their bytes, is a fixed total      *)
(* order on the terms.                                                     *)
(***************************************************************************)

AddressBook == <<"alice", "bob", "carol", "dave", "erin">>
Players == { AddressBook[i] : i \in 1..MaxPlayers }
AddressRank(address) ==
    CHOOSE i \in 1..Len(AddressBook) : AddressBook[i] = address

RewardAmounts == {BigOf(7), BigOf(12)}
RewardStrings == { DecimalString(a) : a \in RewardAmounts }

\* ethers.solidityPackedKeccak256(['address', 'uint256'], [address, amount])
LeafHash(address, rewardAmount) ==
    SolidityPackedKeccak256(<<"address", "uint256">>,
                            <<address, ParseDecimal(rewardAmount)>>)

\* Buffer.compare on two hashes: -1, 0 or 1.  A leaf is the hash of 20 + 32
\* bytes, a node the hash of 32 + 32 bytes.
IsLeafHash(h) == h[2][1][1] = 20
RECURSIVE BufferCompare(_, _)
BufferCompare(a, b) ==
    IF IsLeafHash(a) /\ IsLeafHash(b)
    THEN LET ra == AddressRank(a[2][1][2])
             rb == AddressRank(b[2][1][2])
         IN  IF ra < rb THEN -1
             ELSE IF ra > rb THEN 1
             ELSE IF BigLess(a[2][2][2], b[2][2][2]) THEN -1
             ELSE IF BigLess(b[2][2][2], a[2][2][2]) THEN 1
             ELSE 0
    ELSE IF IsLeafHash(a) THEN -1
    ELSE IF IsLeafHash(b) THEN 1
    ELSE LET first == BufferCompare(a[2][1][2], b[2][1][2])
         IN  IF first # 0 THEN first
             ELSE BufferCompare(a[2][2][2], b[2][2][2])

\* hashFn(Buffer.concat([left, right]))
HashConcat(left, right) ==
    Keccak256(EncodePacked(<<"bytes32", "bytes32">>, <<left, right>>))

\* The pair hashed as it stands, left before right
HashPairUnsorted(left, right) == HashConcat(left, right)

\* combined.sort(Buffer.compare), then the hash of the concatenation
HashSortedPair(left, right) ==
    IF BufferCompare(left, right) <= 0
    THEN HashConcat(left, right)
    ELSE HashConcat(right, left)

\* One pass of MerkleTree._createHashes: pairs are hashed, an odd last node
\* moves up as it is
NextLayer(nodes) ==
    [ k \in 1..((Len(nodes) + 1) \div 2) |->
        IF 2 * k <= Len(nodes)
        THEN HashSortedPair(nodes[2 * k - 1], nodes[2 * k])
        ELSE nodes[2 * k - 1] ]

RECURSIVE CreateHashes(_)
CreateHashes(nodes) ==
    IF Len(nodes) <= 1 THEN <<nodes>>
    ELSE <<nodes>> \o CreateHashes(NextLayer(nodes))

EmptyBuffer == <<>>
MerkleTree(leaves) == [leaves |-> leaves, layers |-> CreateHashes(leaves)]

\* tree.getHexRoot()
GetRoot(tree) ==
    LET top == tree.layers[Len(tree.layers)]
    IN  IF Len(top) = 0 THEN EmptyBuffer ELSE top[1]

\* The position of the leaf among the leaves, counted from 0, or -1
LeafIndex(tree, leaf) ==
    IF \E i \in 1..Len(tree.leaves) : tree.leaves[i] = leaf
    THEN (CHOOSE i \in 1..Len(tree.leaves) :
              /\ tree.leaves[i] = leaf
              /\ \A j \in 1..(i - 1) : tree.leaves[j] # leaf) - 1
    ELSE -1

\* The loop of MerkleTree.getProof over the layers, index counted from 0
RECURSIVE ProofFrom(_, _, _)
ProofFrom(layers, i, index) ==
    IF i > Len(layers) THEN <<>>
    ELSE LET layer == layers[i]
             pairIndex == IF index % 2 = 1 THEN index - 1 ELSE index + 1
             sibling == IF pairIndex < Len(layer)
                        THEN <<layer[pairIndex + 1]>>
                        ELSE <<>>
         IN  sibling \o ProofFrom(layers, i + 1, index \div 2)

\* tree.getHexProof(leaf)
GetProof(tree, leaf) ==
    LET index == LeafIndex(tree, leaf)
    IN  IF index = -1 THEN <<>> ELSE ProofFrom(tree.layers, 1, index)

\* The loop of MerkleTree.verify with sortPairs
RECURSIVE FoldProof(_, _)
FoldProof(hash, proof) ==
    IF Len(proof) = 0 THEN hash
    ELSE FoldProof(IF BufferCompare(hash, proof[1]) = -1
                   THEN HashConcat(hash, proof[1])
                   ELSE HashConcat(proof[1], hash),
                   Tail(proof))

\* tree.verify(proof, targetNode, root)
TreeVerify(proof, targetNode, root) ==
    FoldProof(targetNode, proof) = root

\* generateMerkleTree of the generator script: { root, rewards, tree }
GenerateMerkleTree(rewards) ==
    LET leaves == [ i \in 1..Len(rewards) |->
                      LeafHash(rewards[i].address, rewards[i].rewardAmount) ]
        tree == MerkleTree(leaves)
    IN  [ root |-> GetRoot(tree),
          rewards |-> [ i \in 1..Len(rewards) |->
                          [ address |-> rewards[i].address,
                            rewardAmount |-> rewards[i].rewardAmount,
                            proof |-> GetProof(tree, leaves[i]) ] ],
          tree |-> tree ]

\* generateMerkleTree of the coordinator: { root, proofs }
CoordinatorGenerateMerkleTree(rewards) ==
    LET leaves == [ i \in 1..Len(rewards) |->
                      LeafHash(rewards[i].address, rewards[i].rewardAmount) ]
        tree == MerkleTree(leaves)
    IN  [ root |-> GetRoot(tree),
          proofs |-> [ i \in 1..Len(rewards) |->
                         [ address |-> rewards[i].address,
                           rewardAmount |-> rewards[i].rewardAmount,
                           proof |-> GetProof(tree, leaves[i]) ] ] ]

\* verifyProof(tree, address, amount, proof), with the tree's root
VerifyProof(root, address, amount, proof) ==
    TreeVerify(proof, LeafHash(address, amount), root)

\* The allocation lists: up to MaxPlayers entries, no address twice
Allocation == [address : Players, rewardAmount : RewardStrings]
AllocationLists ==
    UNION { { list \in [1..n -> Allocation] :
                \A i, j \in 1..n : i # j => list[i].address # list[j].address }
            : n \in 1..MaxPlayers }

Implementations == {"generator", "coordinator"}

\* generateMerkleTree(rewards), by either implementation
BuildTree(impl) ==
    /\ ~artifact.built
    /\ artifact' =
         IF impl = "generator"
         THEN LET out == GenerateMerkleTree(allocations)
              IN  [built |-> TRUE, root |-> out.root,
                   rewards |-> out.rewards]
         ELSE LET out == CoordinatorGenerateMerkleTree(allocations)
              IN  [built |-> TRUE, root |-> out.root,
                   rewards |-> out.proofs]
    /\ lastVerify' = NoVerify
    /\ UNCHANGED <<offMerkle, allocations, epochMerkleRoots>>

\* verifyProof for a pair and the proof of the i-th entry of the artifact,
\* as a check before the root is published
CheckProof(address, amount, i) ==
    /\ artifact.built
    /\ \A e \in ChopsEpochs : epochMerkleRoots[e] = ZeroRoot
    /\ i \in 1..Len(artifact.rewards)
    /\ lastVerify' =
         [ acted |-> TRUE, by |-> "verifyProof", address |-> address,
           amount |-> amount, entry |-> i,
           result |-> VerifyProof(artifact.root, address, amount,
                                  artifact.rewards[i].proof) ]
    /\ UNCHANGED <<offMerkle, allocations, artifact, epochMerkleRoots>>

\* Hashes.commutativeKeccak256 of OpenZeppelin
CommutativeKeccak256Unsorted(a, b) == HashConcat(a, b)
CommutativeKeccak256(a, b) ==
    IF BufferCompare(a, b) = -1 THEN HashConcat(a, b) ELSE HashConcat(b, a)

\* MerkleProof.processProof
RECURSIVE ProcessProof(_, _)
ProcessProof(proof, computedHash) ==
    IF Len(proof) = 0 THEN computedHash
    ELSE ProcessProof(Tail(proof), CommutativeKeccak256(computedHash, proof[1]))

\* MerkleProof.verify(proof, root, leaf)
MerkleProofVerify(proof, root, leaf) == ProcessProof(proof, leaf) = root

\* StarsToken.claimChops: the leaf and the proof check
ClaimChopsLeaf(sender, rewardAmount) ==
    Keccak256(EncodePacked(<<"address", "uint256">>, <<sender, rewardAmount>>))
ClaimChopsProofValid(sender, epoch, rewardAmount, merkleProof) ==
    MerkleProofVerify(merkleProof, epochMerkleRoots[epoch],
                      ClaimChopsLeaf(sender, rewardAmount))

\* setMerkleRoot and setMerkleRootAutomated
SetMerkleRoot(epoch, merkleRoot) ==
    /\ epoch <= currentEpoch
    /\ epochMerkleRoots[epoch] # merkleRoot
    /\ epochMerkleRoots' = [epochMerkleRoots EXCEPT ![epoch] = merkleRoot]
    /\ lastVerify' = NoVerify
    /\ lastChops' = NoChops
    /\ UNCHANGED <<now, ledgerVars, allocations, artifact, hasClaimedChops,
                   chopsContract, chopsMinter, chopsBalance, offChops>>

\* The proof check of claimChops for a caller, the amount the client read
\* from the artifact, and the proof of the i-th entry
CheckProofOnChain(sender, epoch, amount, i) ==
    /\ artifact.built
    /\ i \in 1..Len(artifact.rewards)
    /\ epochMerkleRoots[epoch] # ZeroRoot
    /\ lastVerify' =
         [ acted |-> TRUE, by |-> "claimChops", address |-> sender,
           amount |-> amount, entry |-> i,
           result |-> ClaimChopsProofValid(sender, epoch, ParseDecimal(amount),
                                           artifact.rewards[i].proof) ]
    /\ UNCHANGED <<offMerkle, allocations, artifact, epochMerkleRoots>>

MerkleInit ==
    /\ now = DeployTime
    /\ LedgerInit
    /\ signerEnv = DeployedEnv
    /\ vouchers = {}
    /\ credited = [k \in Users \X Nonces |-> 0]
    /\ lastCall = NoCall
    /\ EndpointInit
    /\ ChopsInit
    /\ RewardIdle
    /\ CycleIdle
    /\ allocations \in AllocationLists
    /\ artifact = NoArtifact
    /\ lastVerify = NoVerify

MerkleNext ==
    \/ \E impl \in Implementations : BuildTree(impl)
    \/ \E address \in Players, amount \in RewardStrings,
          i \in 1..MaxPlayers : CheckProof(address, amount, i)
    \/ artifact.built /\ SetMerkleRoot(currentEpoch, artifact.root)
    \/ \E sender \in Players, amount \in RewardStrings, i \in 1..MaxPlayers :
           CheckProofOnChain(sender, currentEpoch, amount, i)

MerkleSpec == MerkleInit /\ [][MerkleNext]_vars

\* Whether the list allocates the amount to the address
Listed(list, address, amount) ==
    \E k \in 1..Len(list) :
        list[k].address = address /\ list[k].rewardAmount = amount

\* C7: Merkle round trip.  For a list with distinct addresses, the proof made
\* for an allocation verifies against the root with that allocation's
\* address and amount; a pair that is not in the list, a listed address
\* with another amount included, verifies with none of the list's proofs.
C7_MerkleRoundTrip ==
    (lastVerify.acted /\ lastVerify.by = "verifyProof") =>
        /\ ( /\ allocations[lastVerify.entry].address = lastVerify.address
             /\ allocations[lastVerify.entry].rewardAmount = lastVerify.amount )
               => lastVerify.result
        /\ ~Listed(allocations, lastVerify.address, lastVerify.amount)
               => ~lastVerify.result
        /\ \A i \in 1..Len(allocations) :
               /\ artifact.rewards[i].address = allocations[i].address
               /\ artifact.rewards[i].rewardAmount = allocations[i].rewardAmount

\* The proof of the last of three allocations, the one whose leaf moves up
\* unpaired, has been verified, in a list that does not start with the
\* smallest leaf
C7_Witness ==
    /\ lastVerify.acted
    /\ lastVerify.by = "verifyProof"
    /\ Len(allocations) = 3
    /\ lastVerify.entry = 3
    /\ allocations[3].address = lastVerify.address
    /\ allocations[3].rewardAmount = lastVerify.amount
    /\ allocations[1].address = "carol"
    /\ lastVerify.result

\* C8: every proof of the builder passes the contract's check.  With the
\* root of the list stored for an epoch, the proof check of claimChops
\* holds for each allocation of the list, called by its address with its
\* amount and its proof; and the contract's check and verifyProof agree on
\* every caller, amount and proof.
C8_ProofsAcceptedOnChain ==
    (lastVerify.acted /\ lastVerify.by = "claimChops") =>
        /\ ( /\ allocations[lastVerify.entry].address = lastVerify.address
             /\ allocations[lastVerify.entry].rewardAmount = lastVerify.amount )
               => lastVerify.result
        /\ lastVerify.result =
               VerifyProof(artifact.root, lastVerify.address, lastVerify.amount,
                           artifact.rewards[lastVerify.entry].proof)

\* The contract has checked the proof of the second of three allocations,
\* in a list whose first pair is not in hash order
C8_Witness ==
    /\ lastVerify.acted
    /\ lastVerify.by = "claimChops"
    /\ Len(allocations) = 3
    /\ lastVerify.entry = 2
    /\ allocations[2].address = lastVerify.address
    /\ allocations[2].rewardAmount = lastVerify.amount
    /\ allocations[1].address = "bob"
    /\ allocations[2].address = "alice"
    /\ lastVerify.result

(***************************************************************************)
(* The Chops rewards of StarsToken: roots are stored per epoch, and        *)
(* claimChops pays an allocation of a closed epoch once.                   *)
(***************************************************************************)

\* The start of each week after the deployment
WeekStarts == { DeployTime + w * SevenDays : w \in 0..MaxWeeks }

\* The lists of the artifact in these runs: the users in some order, the
\* amounts falling with the rank
AmountOfRank == <<DecimalString(BigOf(12)), DecimalString(BigOf(7))>>
ChopsLists ==
    { list \in AllocationLists :
          \A i \in 1..Len(list) :
              /\ list[i].address \in Users
              /\ list[i].rewardAmount = AmountOfRank[i] }

\* Time passes
ChopsTick(t) ==
    /\ t > now
    /\ now' = t
    /\ lastChops' = NoChops
    /\ UNCHANGED <<ledgerVars, merkleVars, chopsVars, offChops>>

\* resetEpoch()
ResetEpoch ==
    /\ ResetDue
    /\ currentEpoch' = EpochAfterCheck
    /\ lastResetTimestamp' = LastResetAfterCheck
    /\ lastChops' = NoChops
    /\ UNCHANGED <<now, epochDuration, starsByEpoch, totalStarsByEpoch,
                   cooldownHours, lastClaimTime, gameSigner, usedNonces, paused,
                   merkleVars, chopsVars, offChops>>

\* setChopsContract(_chopsContract)
SetChopsContract(address) ==
    /\ address # ZeroAddress
    /\ chopsContract # address
    /\ chopsContract' = address
    /\ lastChops' = NoChops
    /\ UNCHANGED <<now, ledgerVars, merkleVars, epochMerkleRoots,
                   hasClaimedChops, chopsMinter, chopsBalance, offChops>>

\* ChopsToken: the admin grants MINTER_ROLE to StarsToken
GrantMinter ==
    /\ ~chopsMinter
    /\ chopsMinter' = TRUE
    /\ lastChops' = NoChops
    /\ UNCHANGED <<now, ledgerVars, merkleVars, epochMerkleRoots,
                   hasClaimedChops, chopsContract, chopsBalance, offChops>>

\* The requires of claimChops, in order, and those of ChopsToken.mint
ClaimChopsOutcomeLive(sender, epoch, rewardAmount, merkleProof) ==
    IF chopsContract = ZeroAddress THEN "Chops contract not set"
    ELSE IF ~(epoch <= EpochAfterCheck) THEN "Cannot claim current epoch"
    ELSE IF hasClaimedChops[epoch][sender]
    THEN "Already claimed for this epoch"
    ELSE IF epochMerkleRoots[epoch] = ZeroRoot
    THEN "Merkle root not set for epoch"
    ELSE IF ~ClaimChopsProofValid(sender, epoch, rewardAmount, merkleProof)
    THEN "Invalid proof"
    ELSE IF ~chopsMinter THEN "Caller is not a minter"
    ELSE "ok"
ClaimChopsOutcome(sender, epoch, rewardAmount, merkleProof) ==
    IF chopsContract = ZeroAddress THEN "Chops contract not set"
    ELSE IF ~(epoch < EpochAfterCheck) THEN "Cannot claim current epoch"
    ELSE IF hasClaimedChops[epoch][sender]
    THEN "Already claimed for this epoch"
    ELSE IF epochMerkleRoots[epoch] = ZeroRoot
    THEN "Merkle root not set for epoch"
    ELSE IF ~ClaimChopsProofValid(sender, epoch, rewardAmount, merkleProof)
    THEN "Invalid proof"
    ELSE IF ~chopsMinter THEN "Caller is not a minter"
    ELSE "ok"

\* claimChops that mints without recording the claim
ClaimChopsUnrecorded(sender, epoch, rewardAmount, merkleProof) ==
    LET outcome == ClaimChopsOutcome(sender, epoch, rewardAmount, merkleProof)
    IN  /\ lastChops' = [ acted |-> TRUE, sender |-> sender, epoch |-> epoch,
                          rewardAmount |-> rewardAmount, outcome |-> outcome,
                          epochAfterReset |-> EpochAfterCheck,
                          resetDue |-> ResetDue,
                          before |-> <<ledgerVars, chopsVars>> ]
        /\ IF outcome = "ok"
           THEN /\ currentEpoch' = EpochAfterCheck
                /\ lastResetTimestamp' = LastResetAfterCheck
                /\ hasClaimedChops' = hasClaimedChops
                /\ chopsBalance' =
                       [chopsBalance EXCEPT ![sender] = BigAdd(@, rewardAmount)]
                /\ UNCHANGED <<epochDuration, starsByEpoch, totalStarsByEpoch,
                               cooldownHours, lastClaimTime, gameSigner,
                               usedNonces, paused, epochMerkleRoots,
                               chopsContract, chopsMinter>>
           ELSE UNCHANGED <<ledgerVars, chopsVars>>
        /\ UNCHANGED <<now, merkleVars, offChops>>

\* claimChops(_epoch, _rewardAmount, _merkleProof) sent by sender; a revert
\* undoes the reset made at entry
ClaimChops(sender, epoch, rewardAmount, merkleProof) ==
    LET outcome == ClaimChopsOutcome(sender, epoch, rewardAmount, merkleProof)
    IN  /\ lastChops' = [ acted |-> TRUE, sender |-> sender, epoch |-> epoch,
                          rewardAmount |-> rewardAmount, outcome |-> outcome,
                          epochAfterReset |-> EpochAfterCheck,
                          resetDue |-> ResetDue,
                          before |-> <<ledgerVars, chopsVars>> ]
        /\ IF outcome = "ok"
           THEN /\ currentEpoch' = EpochAfterCheck
                /\ lastResetTimestamp' = LastResetAfterCheck
                /\ hasClaimedChops' =
                       [hasClaimedChops EXCEPT ![epoch][sender] = TRUE]
                /\ chopsBalance' =
                       [chopsBalance EXCEPT ![sender] = BigAdd(@, rewardAmount)]
                /\ UNCHANGED <<epochDuration, starsByEpoch, totalStarsByEpoch,
                               cooldownHours, lastClaimTime, gameSigner,
                               usedNonces, paused, epochMerkleRoots,
                               chopsContract, chopsMinter>>
           ELSE UNCHANGED <<ledgerVars, chopsVars>>
        /\ UNCHANGED <<now, merkleVars, offChops>>

\* The calls: any user, any epoch, the amount and proof of an entry of the
\* artifact
ChopsCalls ==
    IF artifact.built
    THEN { <<sender, epoch, ParseDecimal(artifact.rewards[i].rewardAmount),
             artifact.rewards[i].proof>> :
               sender \in Users, epoch \in ChopsEpochs,
               i \in 1..Len(artifact.rewards) }
    ELSE {}

ChopsSpecInit ==
    /\ now = DeployTime
    /\ LedgerInit
    /\ signerEnv = DeployedEnv
    /\ vouchers = {}
    /\ credited = [k \in Users \X Nonces |-> 0]
    /\ lastCall = NoCall
    /\ EndpointInit
    /\ ChopsInit
    /\ RewardIdle
    /\ CycleIdle
    /\ allocations \in ChopsLists
    /\ artifact = NoArtifact
    /\ lastVerify = NoVerify

ChopsNext ==
    \/ \E t \in WeekStarts : ChopsTick(t)
    \/ ResetEpoch
    \/ SetChopsContract(ChopsAddress)
    \/ GrantMinter
    \/ BuildTree("coordinator")
    \/ artifact.built /\ \E epoch \in ChopsEpochs :
           SetMerkleRoot(epoch, artifact.root)
    \/ \E call \in ChopsCalls : ClaimChops(call[1], call[2], call[3], call[4])

ChopsSpec == ChopsSpecInit /\ [][ChopsNext]_vars

\* C10: claimChops never succeeds for the live epoch.  A call whose epoch is
\* at or past the current epoch, as it stands after the reset made at entry,
\* reverts, with 'Cannot claim current epoch' once the Chops contract is
\* set, mints nothing and sets no claimed flag, also when a root is stored
\* for that epoch.
C10_NoClaimForLiveEpoch ==
    /\ \A e \in ChopsEpochs, u \in Users :
           hasClaimedChops[e][u] => e < currentEpoch
    /\ lastChops.acted =>
        /\ lastChops.outcome = "ok" =>
               /\ lastChops.epoch < lastChops.epochAfterReset
               /\ lastChops.epoch < currentEpoch
        /\ lastChops.epoch >= lastChops.epochAfterReset =>
               /\ lastChops.outcome \in {"Cannot claim current epoch",
                                         "Chops contract not set"}
               /\ chopsContract # ZeroAddress =>
                      lastChops.outcome = "Cannot claim current epoch"
               /\ <<ledgerVars, chopsVars>> = lastChops.before

\* A listed user has called claimChops for the live epoch, for which the
\* root of the list is stored, with the Chops contract set and minting
\* allowed, and was turned away
C10_Witness ==
    /\ lastChops.acted
    /\ lastChops.epoch = currentEpoch
    /\ artifact.built
    /\ epochMerkleRoots[lastChops.epoch] = artifact.root
    /\ chopsContract = ChopsAddress
    /\ chopsMinter
    /\ \E i \in 1..Len(allocations) :
           /\ allocations[i].address = lastChops.sender
           /\ ParseDecimal(allocations[i].rewardAmount) = lastChops.rewardAmount
    /\ lastChops.outcome = "Cannot claim current epoch"

(***************************************************************************)
(* The reward curve: calculateRewards of the coordinator (the floor of the *)
(* share of the emission in base units) and of the generator script        *)
(* (toFixed(4), then parseEther).                                          *)
(***************************************************************************)
CurveExponents ==
    {MinValue, [num |-> 1, den |-> 1], DefaultExponent, [num |-> 2, den |-> 1]}
Emissions == {2, DefaultEmission}
StarCounts == {1, 2}

\* A sort that is not stable: players with equal stars come out in the
\* reverse of their order of the input
SortByStarsUnstable(list) ==
    LET position(i) ==
            1 + Cardinality({ j \in 1..Len(list) :
                                \/ list[j].stars > list[i].stars
                                \/ list[j].stars = list[i].stars /\ j > i })
    IN  [ k \in 1..Len(list) |->
            list[CHOOSE i \in 1..Len(list) : position(i) = k] ]

\* [...players].sort((a, b) => b.stars - a.stars): by stars descending,
\* players with equal stars in their order of the input
SortByStars(list) ==
    LET position(i) ==
            1 + Cardinality({ j \in 1..Len(list) :
                                \/ list[j].stars > list[i].stars
                                \/ list[j].stars = list[i].stars /\ j < i })
    IN  [ k \in 1..Len(list) |->
            list[CHOOSE i \in 1..Len(list) : position(i) = k] ]

\* The weight taken from the rank itself: the last rank weighs most
WeightByRank(totalPlayers, rank, exponent) == MathPow(rank, exponent)

\* weights[index] with rank = index + 1
Weight(totalPlayers, rank, exponent) ==
    MathPow(totalPlayers - rank + 1, exponent)

\* weights.reduce((sum, w) => sum + w, 1): the sum started at one
RECURSIVE SumWeightsFromOne(_, _, _)
SumWeightsFromOne(totalPlayers, upTo, exponent) ==
    IF upTo = 0 THEN DoubleOf(1)
    ELSE DoubleAdd(SumWeightsFromOne(totalPlayers, upTo - 1, exponent),
                   Weight(totalPlayers, upTo, exponent))

\* weights.reduce((sum, w) => sum + w, 0), over the first upTo weights
RECURSIVE SumWeights(_, _, _)
SumWeights(totalPlayers, upTo, exponent) ==
    IF upTo = 0 THEN DoubleZero
    ELSE DoubleAdd(SumWeights(totalPlayers, upTo - 1, exponent),
                   Weight(totalPlayers, upTo, exponent))

\* coordinator:
\* BigInt(Math.floor((weight / totalWeight) * totalEmission * 1e18)).toString()
CoordinatorRewardAmount(totalPlayers, rank, emission, exponent) ==
    LET weight == Weight(totalPlayers, rank, exponent)
        totalWeight == SumWeights(totalPlayers, totalPlayers, exponent)
    IN  DecimalString(
            MathFloor(DoubleMulE18(DoubleMulSmall(DoubleDiv(weight, totalWeight),
                                                  emission))))

\* generator:
\* ethers.parseEther((totalEmission * shareOfTotal).toFixed(4)).toString()
GeneratorRewardAmount(totalPlayers, rank, emission, exponent) ==
    LET weight == Weight(totalPlayers, rank, exponent)
        totalWeight == SumWeights(totalPlayers, totalPlayers, exponent)
        shareOfTotal == DoubleDiv(weight, totalWeight)
    IN  DecimalString(
            ParseEther4(ToFixed4(DoubleMulSmall(shareOfTotal, emission))))

\* The amounts by number of players, emission, exponent and rank, computed
\* once: they depend on nothing else
CoordinatorAmounts ==
    [ n \in 1..MaxPlayers |-> [ emission \in Emissions |->
        [ exponent \in CurveExponents |-> [ rank \in 1..n |->
            CoordinatorRewardAmount(n, rank, emission, exponent) ] ] ] ]
GeneratorAmounts ==
    [ n \in 1..MaxPlayers |-> [ emission \in Emissions |->
        [ exponent \in CurveExponents |-> [ rank \in 1..n |->
            GeneratorRewardAmount(n, rank, emission, exponent) ] ] ] ]

\* calculateRewards(players, totalEmission, curveExponent) of the coordinator
CoordinatorCalculateRewards(list, emission, exponent) ==
    LET sorted == SortByStars(list)
    IN  [ index \in 1..Len(sorted) |->
            [ address |-> sorted[index].address,
              stars |-> sorted[index].stars,
              rank |-> index,
              rewardAmount |->
                  CoordinatorAmounts[Len(sorted)][emission][exponent][index] ] ]

\* calculateRewards(players, totalEmission, curveExponent) of the generator
GeneratorCalculateRewards(list, emission, exponent) ==
    LET sorted == SortByStars(list)
    IN  [ index \in 1..Len(sorted) |->
            [ address |-> sorted[index].address,
              stars |-> sorted[index].stars,
              rank |-> index,
              rewardAmount |->
                  GeneratorAmounts[Len(sorted)][emission][exponent][index] ] ]

\* The player lists: up to MaxPlayers players, no address twice
PlayerLists ==
    UNION { { list \in [1..n -> [address : Players, stars : StarCounts]] :
                \A i, j \in 1..n : i # j => list[i].address # list[j].address }
            : n \in 1..MaxPlayers }

\* calculateRewards(players, totalEmission, curveExponent), by either
\* implementation
CalculateRewards(impl) ==
    /\ calculated = NoRewards
    /\ calculated' =
         [ by |-> impl,
           list |-> IF impl = "generator"
                    THEN GeneratorCalculateRewards(players, totalEmission,
                                                   curveExponent)
                    ELSE CoordinatorCalculateRewards(players, totalEmission,
                                                     curveExponent) ]
    /\ UNCHANGED <<now, ledgerVars, signerVars, credited, lastCall, issueVars,
                   merkleVars, chopsVars, lastChops, players, totalEmission,
                   curveExponent, starsClaimed, cycleVars>>

RewardInit ==
    /\ now = DeployTime
    /\ LedgerInit
    /\ signerEnv = DeployedEnv
    /\ vouchers = {}
    /\ credited = [k \in Users \X Nonces |-> 0]
    /\ lastCall = NoCall
    /\ EndpointInit
    /\ MerkleIdle
    /\ ChopsInit
    /\ players \in PlayerLists
    /\ totalEmission \in Emissions
    /\ curveExponent \in CurveExponents
    /\ calculated = NoRewards
    /\ CycleIdle

RewardNext == \E impl \in Implementations : CalculateRewards(impl)

RewardSpec == RewardInit /\ [][RewardNext]_vars

\* 10^18, the base units of one token
TokenScalingFactor ==
    BigMulSmall(BigMulSmall(BigMulSmall(BigMulSmall(BigOf(100), 10000), 10000),
                            10000), 10000)

\* The sum of rewardAmount over the first upTo allocations
RECURSIVE SumOfRewards(_, _)
SumOfRewards(list, upTo) ==
    IF upTo = 0 THEN BigOf(0)
    ELSE BigAdd(SumOfRewards(list, upTo - 1),
                ParseDecimal(list[upTo].rewardAmount))

\* C6: the allocations never exceed the emission.  For every player list,
\* totalEmission and curveExponent, and for both implementations, the sum of
\* rewardAmount over the allocations calculateRewards returns is at most
\* totalEmission * 10^18.
C6_SumWithinEmission ==
    calculated # NoRewards =>
        ~BigLess(BigMulSmall(TokenScalingFactor, totalEmission),
                 SumOfRewards(calculated.list, Len(calculated.list)))

(***************************************************************************)
(* The programs that produce a distribution: the handler of                *)
(* auto-generate-rewards (the coordinator) and the generator script, one   *)
(* step for each await, running among the transactions of the ledger.      *)
(***************************************************************************)
\* What the steps of the two programs leave alone
offCycle == <<signerVars, credited, lastCall, issueVars, merkleVars, lastChops,
              rewardVars, starsClaimed, cronEnv>>

\* The run has ended: res.status(status).json(...) of the handler,
\* process.exit(status) or the end of the script
Responded(status, message) ==
    [IdleCycle EXCEPT !.status = status, !.message = message]

\* previousEpoch = Number(currentEpoch) - 1
PreviousEpoch(epoch) == epoch - 1

\* epochEvents.map(e => e.args.user), without the Set: a user once for each
\* event
RECURSIVE EpochAddressesRepeated(_, _)
EpochAddressesRepeated(events, epochNumber) ==
    IF Len(events) = 0 THEN <<>>
    ELSE LET before == EpochAddressesRepeated(
                           SubSeq(events, 1, Len(events) - 1), epochNumber)
             last == events[Len(events)]
         IN  IF last.epoch = epochNumber THEN Append(before, last.user)
             ELSE before

\* [...new Set(epochEvents.map(e => e.args.user))]: the users of the events
\* of the epoch, each once, in the order of their first event
RECURSIVE EpochAddresses(_, _)
EpochAddresses(events, epochNumber) ==
    IF Len(events) = 0 THEN <<>>
    ELSE LET before == EpochAddresses(SubSeq(events, 1, Len(events) - 1),
                                      epochNumber)
             last == events[Len(events)]
         IN  IF /\ last.epoch = epochNumber
                /\ \A i \in 1..Len(before) : before[i] # last.user
             THEN Append(before, last.user)
             ELSE before

\* starsByEpoch(address, epochNumber), a mapping read
StarsByEpochOf(address, epochNumber) ==
    IF epochNumber \in Epochs THEN starsByEpoch[address][epochNumber] ELSE 0

\* players.filter(p => p.stars > 0)
HasStars(p) == p.stars > 0

\* The balances joined to the addresses in the order the reads came back,
\* taken to be the reverse of the order they were sent in
FetchedPlayersAsCompleted(addresses, stars) ==
    SelectSeq([ i \in 1..Len(addresses) |->
                  [address |-> addresses[i],
                   stars |-> stars[Len(addresses) + 1 - i]] ], HasStars)

\* Promise.all keeps the order of the promises: the i-th player has the
\* i-th address and the balance read for it
FetchedPlayers(addresses, stars) ==
    SelectSeq([ i \in 1..Len(addresses) |->
                  [address |-> addresses[i], stars |-> stars[i]] ], HasStars)

\* The output of the handler for the players found
CycleOutput(previousEpoch, found) ==
    LET out == CoordinatorGenerateMerkleTree(
                   CoordinatorCalculateRewards(found, DefaultEmission,
                                               DefaultExponent))
    IN  [ built |-> TRUE,
          epoch |-> previousEpoch,
          totalPlayers |-> Len(found),
          totalEmission |-> DefaultEmission,
          curveExponent |-> DefaultExponent,
          merkleRoot |-> out.root,
          rewards |-> out.proofs ]

\* authHeader !== `Bearer ${process.env.CRON_SECRET}`
HeaderRefused(authHeader) ==
    authHeader # <<"Bearer " \o Interpolated(cronEnv.cronSecret)>>

\* A request reaches the handler.  Anything but a POST with the expected
\* header is answered at once; new ethers.Wallet throws without a private
\* key
Trigger(c, method, authHeader) ==
    /\ cycle[c].pc = "idle"
    /\ cycle' = [cycle EXCEPT ![c] =
           IF method # "POST"
           THEN Responded(405, "Method not allowed")
           ELSE IF HeaderRefused(authHeader)
                THEN Responded(401, "Unauthorized")
           ELSE IF ~cronEnv.signerKey
                THEN Responded(500, "invalid private key")
           ELSE [IdleCycle EXCEPT !.pc = "currentEpoch"]]
    /\ UNCHANGED <<now, ledgerVars, chopsVars, blobs, offCycle>>

\* checkAndResetEpoch: await starsContract.currentEpoch()
ReadCurrentEpoch(c) ==
    /\ cycle[c].pc = "currentEpoch"
    /\ cycle' = [cycle EXCEPT ![c].currentEpoch = currentEpoch,
                              ![c].pc = "lastResetTimestamp"]
    /\ UNCHANGED <<now, ledgerVars, chopsVars, blobs, offCycle>>

\* checkAndResetEpoch: await starsContract.lastResetTimestamp()
ReadLastResetTimestamp(c) ==
    /\ cycle[c].pc = "lastResetTimestamp"
    /\ cycle' = [cycle EXCEPT ![c].lastResetTimestamp = lastResetTimestamp,
                              ![c].pc = "epochDuration"]
    /\ UNCHANGED <<now, ledgerVars, chopsVars, blobs, offCycle>>

\* `${epochDuration / 86400}`: the contract's uint256 results are bigint
\* values, and the division of a bigint by a number throws a TypeError with
\* this message
BigIntDividedByNumber == "Cannot mix BigInt and other types"

\* timeSinceLastReset >= epochDuration, the test of the window
WindowElapsed(timeSinceLastReset, duration) == timeSinceLastReset >= duration

\* checkAndResetEpoch: await starsContract.epochDuration(), the server clock
\* and the first console.log.  Its template divides epochDuration by 86400
\* and throws; the catch of checkAndResetEpoch throws the error again, and
\* the catch of the handler answers 500 with its message.  The test of the
\* window, two statements further, is never reached.
ReadEpochDuration(c) ==
    /\ cycle[c].pc = "epochDuration"
    /\ cycle' = [cycle EXCEPT ![c] = Responded(500, BigIntDividedByNumber)]
    /\ UNCHANGED <<now, ledgerVars, chopsVars, blobs, offCycle>>

\* An await of the handler throws (the node cannot be reached): the catch
\* answers 500
CycleFails(c) ==
    /\ cycle[c].pc \in {"currentEpoch", "lastResetTimestamp", "epochDuration"}
    /\ cycle' = [cycle EXCEPT ![c] = Responded(500, "error")]
    /\ UNCHANGED <<now, ledgerVars, chopsVars, blobs, offCycle>>

(***************************************************************************)
(* The rest of the handler, as written.  No run arrives here: every run    *)
(* that reads epochDuration ends in ReadEpochDuration.                     *)
(***************************************************************************)
\* checkAndResetEpoch: the resetEpoch transaction; it reverts, and the handler
\* answers 500, when the epoch was reset in the meantime
SendResetEpoch(c) ==
    /\ cycle[c].pc = "resetEpoch"
    /\ IF ResetDue
       THEN /\ currentEpoch' = EpochAfterCheck
            /\ lastResetTimestamp' = LastResetAfterCheck
            /\ cycle' = [cycle EXCEPT ![c].pc = "newEpoch",
                                      ![c].resetTo = EpochAfterCheck]
       ELSE /\ cycle' = [cycle EXCEPT ![c] =
                            Responded(500, "Epoch duration not elapsed")]
            /\ UNCHANGED <<currentEpoch, lastResetTimestamp>>
    /\ UNCHANGED <<now, epochDuration, starsByEpoch, totalStarsByEpoch,
                   cooldownHours, lastClaimTime, gameSigner, usedNonces, paused,
                   chopsVars, blobs, offCycle>>

\* checkAndResetEpoch: newEpoch = await starsContract.currentEpoch()
ReadNewEpoch(c) ==
    /\ cycle[c].pc = "newEpoch"
    /\ cycle' = [cycle EXCEPT ![c].currentEpoch = currentEpoch,
                              ![c].previousEpoch = PreviousEpoch(currentEpoch),
                              ![c].pc = "fetch"]
    /\ UNCHANGED <<now, ledgerVars, chopsVars, blobs, offCycle>>

\* The check for rewards that already exist: a fetch of the blob of the
\* epoch; a fetch that fails is ignored
FetchBlob(c, reached) ==
    /\ cycle[c].pc = "fetch"
    /\ cycle' = [cycle EXCEPT ![c] =
           IF reached /\ blobs[cycle[c].previousEpoch].built
           THEN Responded(200, "already generated")
           ELSE [cycle[c] EXCEPT !.pc = "queryFilter"]]
    /\ UNCHANGED <<now, ledgerVars, chopsVars, blobs, offCycle>>

\* No players, or calculateRewards, generateMerkleTree and the output
Generate(c) ==
    /\ c \in Coordinators
    /\ cycle[c].pc = "fetched"
    /\ LET found == cycle[c].found
       IN  cycle' = [cycle EXCEPT ![c] =
               IF Len(found) = 0
               THEN Responded(200, "No players found")
               ELSE [cycle[c] EXCEPT
                        !.output = CycleOutput(cycle[c].previousEpoch, found),
                        !.pc = "put"]]
    /\ UNCHANGED <<now, ledgerVars, chopsVars, blobs, offCycle>>

\* await put(fileName, fileContent, ...)
PutBlob(c) ==
    /\ c \in Coordinators
    /\ cycle[c].pc = "put"
    /\ blobs' = [blobs EXCEPT ![cycle[c].previousEpoch] = cycle[c].output]
    /\ cycle' = [cycle EXCEPT ![c] =
           IF cronEnv.signerKey
           THEN [cycle[c] EXCEPT !.pc = "setMerkleRootAutomated"]
           ELSE Responded(200, "Merkle root not set on-chain")]
    /\ UNCHANGED <<now, ledgerVars, chopsVars, offCycle>>

\* setMerkleRootOnChain: the setMerkleRootAutomated transaction, sent by the
\* game signer, who holds REWARD_MANAGER_ROLE
SendSetMerkleRoot(c) ==
    /\ cycle[c].pc = "setMerkleRootAutomated"
    /\ IF cycle[c].previousEpoch <= currentEpoch
       THEN /\ epochMerkleRoots' =
                   [epochMerkleRoots EXCEPT ![cycle[c].previousEpoch] =
                        cycle[c].output.merkleRoot]
            /\ cycle' = [cycle EXCEPT ![c].pc = "wait"]
       ELSE /\ cycle' = [cycle EXCEPT ![c] =
                            Responded(500, "Cannot set root for future epoch")]
            /\ UNCHANGED epochMerkleRoots
    /\ UNCHANGED <<now, ledgerVars, hasClaimedChops, chopsContract, chopsMinter,
                   chopsBalance, blobs, offCycle>>

\* The transaction is mined: the handler answers 200 with its hash
Respond(c) ==
    /\ cycle[c].pc = "wait"
    /\ cycle' = [cycle EXCEPT ![c] = Responded(200, "success")]
    /\ UNCHANGED <<now, ledgerVars, chopsVars, blobs, offCycle>>

(***************************************************************************)
(* fetchEpochPlayers, the same in both programs, and the generator script. *)
(***************************************************************************)
\* fetchEpochPlayers: await starsContract.queryFilter(filter)
QueryFilter(c) ==
    /\ cycle[c].pc = "queryFilter"
    /\ LET addresses == EpochAddresses(starsClaimed, cycle[c].previousEpoch)
       IN  cycle' = [cycle EXCEPT
               ![c].events = Len(starsClaimed),
               ![c].addresses = addresses,
               ![c].stars = [i \in 1..Len(addresses) |-> -1],
               ![c].pc = "starsByEpoch"]
    /\ UNCHANGED <<now, ledgerVars, chopsVars, blobs, offCycle>>

\* fetchEpochPlayers: one of the starsByEpoch reads of Promise.all
ReadStarsByEpoch(c, i) ==
    /\ cycle[c].pc = "starsByEpoch"
    /\ i \in 1..Len(cycle[c].stars)
    /\ cycle[c].stars[i] = -1
    /\ cycle' = [cycle EXCEPT ![c].stars[i] =
                    StarsByEpochOf(cycle[c].addresses[i],
                                   cycle[c].previousEpoch)]
    /\ UNCHANGED <<now, ledgerVars, chopsVars, blobs, offCycle>>

\* fetchEpochPlayers returns players.filter(p => p.stars > 0) when all reads
\* are back; its own locals are gone, but for the number of events it read
ReturnPlayers(c) ==
    /\ cycle[c].pc = "starsByEpoch"
    /\ \A i \in 1..Len(cycle[c].stars) : cycle[c].stars[i] # -1
    /\ cycle' = [cycle EXCEPT
           ![c].found = FetchedPlayers(cycle[c].addresses, cycle[c].stars),
           ![c].addresses = <<>>,
           ![c].stars = <<>>,
           ![c].pc = "fetched"]
    /\ UNCHANGED <<now, ledgerVars, chopsVars, blobs, offCycle>>

\* parseInt(process.argv[2]) || 1
EpochArgument(argument) == IF argument = 0 THEN 1 ELSE argument

\* The operator starts the script: node generate-rewards.js <epoch>, with
\* --set-on-chain or without it
RunGenerator(g, argument, autoSetOnChain) ==
    /\ g \in Generators
    /\ cycle[g].pc = "idle"
    /\ cycle' = [cycle EXCEPT ![g] =
           [IdleCycle EXCEPT !.pc = "queryFilter",
                             !.previousEpoch = EpochArgument(argument),
                             !.autoSetOnChain = autoSetOnChain]]
    /\ UNCHANGED <<now, ledgerVars, chopsVars, blobs, offCycle>>

\* generateEpochRewards: the sample of proofs it verifies, [0,
\* Math.floor(rewards.length / 2), rewards.length - 1], counted from one
SampleIndexes(length) == {1, (length \div 2) + 1, length}

\* generateEpochRewards(epochNumber, players): the output, and what the
\* verification of the sample printed
GeneratorArtifact(epochNumber, totalPlayers, out) ==
    [ built |-> TRUE,
      epoch |-> epochNumber,
      merkleRoot |-> out.root,
      totalPlayers |-> totalPlayers,
      rewards |-> out.rewards,
      printed |-> [ i \in SampleIndexes(totalPlayers) |->
                      VerifyProof(out.root, out.rewards[i].address,
                                  out.rewards[i].rewardAmount,
                                  out.rewards[i].proof) ] ]

GeneratorOutput(epochNumber, found) ==
    GeneratorArtifact(epochNumber, Len(found),
                      GenerateMerkleTree(
                          GeneratorCalculateRewards(found, DefaultEmission,
                                                    DefaultExponent)))

\* Without players the script exits with code 1; with players,
\* generateEpochRewards, which prints the result of each verification and
\* goes on whatever it is, and then the upload, the transaction, or, with
\* neither, the end of the script
GenerateEpochRewards(g) ==
    /\ g \in Generators
    /\ cycle[g].pc = "fetched"
    /\ LET found == cycle[g].found
       IN  cycle' = [cycle EXCEPT ![g] =
               IF Len(found) = 0 THEN Responded(1, "No players found")
               ELSE IF ~cronEnv.blobToken /\ ~cycle[g].autoSetOnChain
               THEN Responded(0, "set manually")
               ELSE [cycle[g] EXCEPT
                        !.output =
                            GeneratorOutput(cycle[g].previousEpoch, found),
                        !.pc = IF cronEnv.blobToken THEN "put"
                               ELSE "setMerkleRoot"]]
    /\ UNCHANGED <<now, ledgerVars, chopsVars, blobs, offCycle>>

\* The upload to the blob store, when BLOB_READ_WRITE_TOKEN is set; an upload
\* that fails is reported and the script continues
UploadBlob(g, reached) ==
    /\ g \in Generators
    /\ cycle[g].pc = "put"
    /\ blobs' = IF reached
                THEN [blobs EXCEPT ![cycle[g].previousEpoch] = cycle[g].output]
                ELSE blobs
    /\ cycle' = [cycle EXCEPT ![g] =
           IF cycle[g].autoSetOnChain
           THEN [cycle[g] EXCEPT !.pc = "setMerkleRoot"]
           ELSE Responded(0, "set manually")]
    /\ UNCHANGED <<now, ledgerVars, chopsVars, offCycle>>

\* setMerkleRootOnChain, with --set-on-chain or when the operator answers
\* yes: the owner's setMerkleRoot transaction.  A transaction that reverts
\* ends the script with code 1.
GeneratorSetMerkleRoot(g) ==
    /\ g \in Generators
    /\ cycle[g].pc = "setMerkleRoot"
    /\ IF cycle[g].previousEpoch <= currentEpoch
       THEN /\ epochMerkleRoots' =
                   [epochMerkleRoots EXCEPT ![cycle[g].previousEpoch] =
                        cycle[g].output.merkleRoot]
            /\ cycle' = [cycle EXCEPT ![g] = Responded(0, "set on chain")]
       ELSE /\ cycle' = [cycle EXCEPT ![g] =
                            Responded(1, "Cannot set root for future epoch")]
            /\ UNCHANGED epochMerkleRoots
    /\ UNCHANGED <<now, ledgerVars, hasClaimedChops, chopsContract, chopsMinter,
                   chopsBalance, blobs, offCycle>>

\* A starsByEpoch read that throws taken for a player without stars: the
\* script goes on with the players whose reads came back
GeneratorFailsKeepsPartial(g) ==
    /\ g \in Generators
    /\ cycle[g].pc \in {"queryFilter", "starsByEpoch", "setMerkleRoot"}
    /\ cycle' = [cycle EXCEPT ![g] =
           IF cycle[g].pc = "starsByEpoch"
           THEN [cycle[g] EXCEPT
                    !.found = FetchedPlayers(cycle[g].addresses, cycle[g].stars),
                    !.addresses = <<>>,
                    !.stars = <<>>,
                    !.pc = "fetched"]
           ELSE Responded(1, cycle[g].pc)]
    /\ UNCHANGED <<now, ledgerVars, chopsVars, blobs, offCycle>>

\* An await of the script throws (the node cannot be reached): the catch
\* prints the error's message, which tells the call that failed, and exits
\* with code 1
GeneratorFails(g) ==
    /\ g \in Generators
    /\ cycle[g].pc \in {"queryFilter", "starsByEpoch", "setMerkleRoot"}
    /\ cycle' = [cycle EXCEPT ![g] = Responded(1, cycle[g].pc)]
    /\ UNCHANGED <<now, ledgerVars, chopsVars, blobs, offCycle>>

\* A player earns stars: the game asks the signer for a voucher and sends
\* the claimStars transaction with it
PlayerClaims(sender, amount, nonce) ==
    LET v == GenerateStarClaimSignature(sender, amount, nonce,
                                        [sec |-> now, ms |-> 0], signerEnv)
    IN  ClaimStars(sender, v.amount, v.nonce, v.deadline, v.signature)

\* The state before the first run of either program
CycleStart ==
    /\ now = DeployTime
    /\ LedgerInit
    /\ signerEnv = DeployedEnv
    /\ vouchers = {}
    /\ credited = [k \in Users \X Nonces |-> 0]
    /\ lastCall = NoCall
    /\ EndpointInit
    /\ MerkleIdle
    /\ ChopsInit
    /\ RewardIdle
    /\ starsClaimed = <<>>
    /\ blobs = [e \in ChopsEpochs |-> NoArtifact]
    /\ cycle = [c \in Runners |-> IdleCycle]

(***************************************************************************)
(* fetchEpochPlayers of the generator script among the claims of the       *)
(* players: alice claims twice and bob once, the operator has no token for *)
(* the blob store and sets the root by hand.                               *)
(***************************************************************************)
FetchClaims == {<<"alice", 1, 1>>, <<"alice", 2, 2>>, <<"bob", 1, 1>>}
FetchArguments == {0, 2}

FetchInit ==
    /\ CycleStart
    /\ cronEnv = [signerKey |-> TRUE, cronSecret |-> <<CronSecret>>,
                  blobToken |-> FALSE]

FetchNext ==
    \/ \E t \in WeekStarts : Tick(t)
    \/ \E claim \in FetchClaims : PlayerClaims(claim[1], claim[2], claim[3])
    \/ ResetEpoch
    \/ \E g \in Generators, argument \in FetchArguments :
           RunGenerator(g, argument, FALSE)
    \/ \E g \in Generators : QueryFilter(g)
    \/ \E g \in Generators, i \in 1..Cardinality(Users) : ReadStarsByEpoch(g, i)
    \/ \E g \in Generators : ReturnPlayers(g)
    \/ \E g \in Generators : GenerateEpochRewards(g)
    \/ \E g \in Generators : GeneratorFails(g)

FetchSpec == FetchInit /\ [][FetchNext]_vars

\* What the theorems say of a list of players: the run has it
Returned(run) == run.pc \in {"fetched", "put", "setMerkleRoot"}

\* The user has a StarsClaimed event of the epoch among the events from the
\* first-th to the last-th of the log
HasEventIn(user, epochNumber, first, last) ==
    \E k \in first..last : /\ starsClaimed[k].user = user
                            /\ starsClaimed[k].epoch = epochNumber

\* The place in the log of the first event of the user in the epoch
FirstEventOf(user, epochNumber) ==
    CHOOSE k \in 1..Len(starsClaimed) :
        /\ HasEventIn(user, epochNumber, k, k)
        /\ ~HasEventIn(user, epochNumber, 1, k - 1)

\* C19: fetchEpochPlayers(e) returns one record for each address that has a
\* StarsClaimed event of epoch e and a positive balance in the ledger, and
\* no other record.  The list a run of the generator script was returned has
\* no address twice and no record without stars; each of its addresses has
\* an event of the epoch among the events the run read, and each address
\* with such an event and a positive balance is in the list; the stars of a
\* record never exceed the balance the ledger holds for the address in the
\* epoch, and they are that balance, whatever the amounts of the events,
\* unless the address has claimed again since the events were read.
C19_OneRecordPerPlayer ==
    \A g \in Runners :
        Returned(cycle[g]) =>
            LET list == cycle[g].found
                e == cycle[g].previousEpoch
                read == cycle[g].events
            IN  /\ \A i, j \in 1..Len(list) :
                       i # j => list[i].address # list[j].address
                /\ \A i \in 1..Len(list) :
                       /\ list[i].stars > 0
                       /\ HasEventIn(list[i].address, e, 1, read)
                       /\ list[i].stars <= StarsByEpochOf(list[i].address, e)
                       /\ ~HasEventIn(list[i].address, e, read + 1,
                                      Len(starsClaimed))
                              => list[i].stars =
                                     StarsByEpochOf(list[i].address, e)
                /\ \A u \in Users :
                       /\ HasEventIn(u, e, 1, read)
                       /\ StarsByEpochOf(u, e) > 0
                       => \E i \in 1..Len(list) : list[i].address = u

\* A run was returned both players of a closed epoch, one of them with the
\* stars of two claims
C19_Witness ==
    \E g \in Generators :
        /\ cycle[g].pc = "fetched"
        /\ cycle[g].previousEpoch < currentEpoch
        /\ Len(cycle[g].found) = 2
        /\ \E i \in 1..2 : cycle[g].found[i].stars = 3

\* C20: the balance reads of fetchEpochPlayers are issued together, and in
\* whatever order they come back, each address is paired with its own
\* balance and the list keeps the order in which the addresses first appear
\* in the event log.  While the reads are out, whichever are back, each one
\* is within the balance of the address at its own place; in the list
\* returned, an address stands before another
\* exactly when its first event of the epoch is the earlier one, and its
\* stars are within its own balance, and equal to it unless it has claimed
\* again since the events were read.
C20_OrderOfFirstAppearance ==
    \A g \in Runners :
        LET run == cycle[g]
            e == run.previousEpoch
        IN  /\ run.pc = "starsByEpoch" =>
                   \A i \in 1..Len(run.addresses) :
                       run.stars[i] <= StarsByEpochOf(run.addresses[i], e)
            /\ Returned(run) =>
                   /\ \A i, j \in 1..Len(run.found) :
                          (i < j) <=>
                              FirstEventOf(run.found[i].address, e)
                                  < FirstEventOf(run.found[j].address, e)
                   /\ \A i \in 1..Len(run.found) :
                          /\ run.found[i].stars
                                 <= StarsByEpochOf(run.found[i].address, e)
                          /\ ~HasEventIn(run.found[i].address, e,
                                         run.events + 1, Len(starsClaimed))
                                 => run.found[i].stars =
                                        StarsByEpochOf(run.found[i].address, e)

\* The read sent second is back while the read sent first is still out, and
\* the two addresses have different balances
C20_Witness ==
    \E g \in Generators :
        /\ cycle[g].pc = "starsByEpoch"
        /\ Len(cycle[g].stars) = 2
        /\ cycle[g].stars[1] = -1
        /\ cycle[g].stars[2] # -1
        /\ StarsByEpochOf(cycle[g].addresses[1], cycle[g].previousEpoch)
               # StarsByEpochOf(cycle[g].addresses[2], cycle[g].previousEpoch)

(***************************************************************************)
(* The coordinator among the transactions of the ledger and the runs of    *)
(* the generator script: alice claims once, the operator has a token for   *)
(* the blob store and asks for the first epoch.                            *)
(***************************************************************************)
CycleClaims == {<<"alice", 1, 1>>}
CronMethods == {"POST", "GET"}
AuthHeaders == {Unset, <<"Bearer s3cret">>, <<"Bearer undefined">>}
CycleArguments == {0}

CycleInit ==
    /\ CycleStart
    /\ cronEnv \in [signerKey : BOOLEAN, cronSecret : {Unset, <<CronSecret>>},
                   blobToken : {TRUE}]

CycleNext ==
    \/ \E t \in WeekStarts : Tick(t)
    \/ \E claim \in CycleClaims : PlayerClaims(claim[1], claim[2], claim[3])
    \/ ResetEpoch
    \/ \E c \in Coordinators, method \in CronMethods, authHeader \in AuthHeaders :
           Trigger(c, method, authHeader)
    \/ \E c \in Coordinators : ReadCurrentEpoch(c)
    \/ \E c \in Coordinators : ReadLastResetTimestamp(c)
    \/ \E c \in Coordinators : ReadEpochDuration(c)
    \/ \E c \in Coordinators : CycleFails(c)
    \/ \E g \in Generators, argument \in CycleArguments, auto \in BOOLEAN :
           RunGenerator(g, argument, auto)
    \/ \E g \in Generators : QueryFilter(g)
    \/ \E g \in Generators, i \in 1..Cardinality(Users) : ReadStarsByEpoch(g, i)
    \/ \E g \in Generators : ReturnPlayers(g)
    \/ \E g \in Generators : GenerateEpochRewards(g)
    \/ \E g \in Generators, reached \in BOOLEAN : UploadBlob(g, reached)
    \/ \E g \in Generators : GeneratorSetMerkleRoot(g)
    \/ \E g \in Generators : GeneratorFails(g)

CycleSpec == CycleInit /\ [][CycleNext]_vars

\* A step of the coordinator from the window check, the reads of the ledger
\* having succeeded: the run has the epoch and the time of the last reset,
\* and reads the duration of the epoch
LeavesWindowCheck(c) ==
    /\ cycle[c].pc = "epochDuration"
    /\ cycle'[c] # cycle[c]
    /\ cycle'[c].message # "error"

\* The window has elapsed when the run checks it
ElapsedAtCheck(c) ==
    WindowElapsed(now - cycle[c].lastResetTimestamp, epochDuration)

\* C18: the coordinator sends resetEpoch exactly when the time since the
\* last reset has reached epochDuration at the window check: a run that
\* leaves the window check goes on to the resetEpoch transaction when the
\* window has elapsed, and does not when it has not.
C18_ResetIffWindowElapsed ==
    [][\A c \in Coordinators :
           LeavesWindowCheck(c) =>
               (ElapsedAtCheck(c) <=> cycle'[c].pc = "resetEpoch")]_vars

\* A run of the coordinator ends, and not because the node could not be
\* reached
EndsRun(c) ==
    /\ cycle[c].pc # "idle"
    /\ cycle'[c].pc = "idle"
    /\ cycle'[c].message # "error"

\* The target of a run that found the window not elapsed: the epoch before
\* the one it read
TargetAtCheck(c) == PreviousEpoch(cycle[c].currentEpoch)

\* No StarsClaimed event has the epoch
NobodyClaimedIn(epochNumber) ==
    \A k \in 1..Len(starsClaimed) : starsClaimed[k].epoch # epochNumber

\* C11: with no players in the target epoch, the cycle ends with the
\* successful result 'No players found'.  A run that no failure of the node
\* interrupts, for a target in which nobody has claimed and for which no
\* artifact is stored, ends with status 200 and that message.
C11_NoPlayersReported ==
    [][\A c \in Coordinators :
           (/\ EndsRun(c)
            /\ ~ElapsedAtCheck(c)
            /\ NobodyClaimedIn(TargetAtCheck(c))
            /\ ~blobs[TargetAtCheck(c)].built)
           => /\ cycle'[c].status = 200
              /\ cycle'[c].message = "No players found"]_vars

\* C12: a cycle run when the artifact of its target is already in the store
\* ends with the result 'already generated'.  A run that no failure of the
\* node interrupts, for a target whose artifact is stored, ends with status
\* 200 and that message.
C12_RerunReportsAlreadyGenerated ==
    [][\A c \in Coordinators :
           (/\ EndsRun(c)
            /\ ~ElapsedAtCheck(c)
            /\ blobs[TargetAtCheck(c)].built)
           => /\ cycle'[c].status = 200
              /\ cycle'[c].message = "already generated"]_vars

\* C13: a stored artifact without a root is recovered by the next cycle for
\* the same epoch.  A run that no failure of the node interrupts, for a
\* target whose artifact is stored, does not end while the ledger has no
\* root for the target.
C13_RerunPublishesRoot ==
    [][\A c \in Coordinators :
           (/\ EndsRun(c)
            /\ ~ElapsedAtCheck(c)
            /\ blobs[TargetAtCheck(c)].built)
           => epochMerkleRoots'[TargetAtCheck(c)] # ZeroRoot]_vars

\* The stages of fetchEpochPlayers
Collecting == {"queryFilter", "starsByEpoch"}

\* C21: a read of the ledger that fails during the collection ends the run
\* with an error, and a partial list of players is never used.  A run leaves
\* the collection in one of two ways: with every balance read and the list
\* made of all of them, or ended with an error result, without an output,
\* and with the store and the roots of the ledger as they were.
C21_ReadFailureEndsRun ==
    [][\A c \in Runners :
           (cycle[c].pc \in Collecting /\ cycle'[c].pc \notin Collecting)
           => \/ /\ cycle'[c].pc = "fetched"
                 /\ \A i \in 1..Len(cycle[c].stars) : cycle[c].stars[i] # -1
                 /\ cycle'[c].found =
                        FetchedPlayers(cycle[c].addresses, cycle[c].stars)
              \/ /\ cycle'[c].pc = "idle"
                 /\ cycle'[c].status \notin {0, 200}
                 /\ cycle'[c].output = NoArtifact
                 /\ blobs' = blobs
                 /\ epochMerkleRoots' = epochMerkleRoots]_vars

\* A run of the script for an epoch in which a player has claimed has ended
\* with code 1 on a starsByEpoch read that failed; nothing is stored and no
\* root is set
C21_Witness ==
    \E g \in Generators :
        /\ cycle[g].pc = "idle"
        /\ cycle[g].status = 1
        /\ cycle[g].message = "starsByEpoch"
        /\ \E k \in 1..Len(starsClaimed) : starsClaimed[k].epoch = 1
        /\ \A e \in ChopsEpochs :
               ~blobs[e].built /\ epochMerkleRoots[e] = ZeroRoot

(***************************************************************************)
(* The ledger in use: players claim stars, the epoch is reset, roots are   *)
(* set and replaced, and players claim the Chops of closed epochs.  The    *)
(* first distribution pays alice 12 and bob 7; the one that replaces it    *)
(* has alice alone, with 7.  Both are distributions of the first epoch.    *)
(***************************************************************************)
FirstEpoch == 1
LedgerClaims == {<<"alice", 1, 1>>, <<"alice", 2, 2>>}
LedgerList ==
    << [address |-> "alice", rewardAmount |-> AmountOfRank[1]],
       [address |-> "bob", rewardAmount |-> AmountOfRank[2]] >>

\* The root of the distribution with alice alone: its only leaf
SoleRoot == LeafHash("alice", AmountOfRank[2])

\* The roots the owner sets
LedgerRoots ==
    (IF artifact.built THEN {artifact.root} ELSE {}) \cup {SoleRoot}

\* The claimChops calls: the entries of the first distribution, and alice's
\* of the second, sent by either user for the first epoch
LedgerChopsCalls ==
    { call \in ChopsCalls : call[2] = FirstEpoch }
        \cup { <<sender, FirstEpoch, ParseDecimal(AmountOfRank[2]), <<>>>> :
                   sender \in Users }

\* The contracts deployed and connected: setChopsContract called, and
\* MINTER_ROLE granted to StarsToken
LedgerSpecInit ==
    /\ now = DeployTime
    /\ LedgerInit
    /\ signerEnv = DeployedEnv
    /\ vouchers = {}
    /\ credited = [k \in Users \X Nonces |-> 0]
    /\ lastCall = NoCall
    /\ EndpointInit
    /\ epochMerkleRoots = [e \in ChopsEpochs |-> ZeroRoot]
    /\ hasClaimedChops = [e \in ChopsEpochs |-> [u \in Users |-> FALSE]]
    /\ chopsContract = ChopsAddress
    /\ chopsMinter = TRUE
    /\ chopsBalance = [u \in Users |-> BigOf(0)]
    /\ lastChops = NoChops
    /\ RewardIdle
    /\ CycleIdle
    /\ allocations = LedgerList
    /\ artifact = NoArtifact
    /\ lastVerify = NoVerify

LedgerNext ==
    \/ \E t \in WeekStarts : ChopsTick(t)
    \/ \E claim \in LedgerClaims : PlayerClaims(claim[1], claim[2], claim[3])
    \/ ResetEpoch
    \/ BuildTree("generator")
    \/ \E root \in LedgerRoots : SetMerkleRoot(FirstEpoch, root)
    \/ \E call \in LedgerChopsCalls :
           ClaimChops(call[1], call[2], call[3], call[4])

LedgerSpec == LedgerSpecInit /\ [][LedgerNext]_vars

\* fetchEpochPlayers(e) on the ledger as it stands
PlayersOfEpoch(e) ==
    LET addresses == EpochAddresses(starsClaimed, e)
    IN  FetchedPlayers(addresses,
                       [i \in 1..Len(addresses) |->
                           StarsByEpochOf(addresses[i], e)])

\* The StarsClaimed events of an epoch, oldest first
EventsOfEpoch(e) == SelectSeq(starsClaimed, LAMBDA event : event.epoch = e)

\* C22: the records of a closed epoch never change.  No step of the ledger
\* (claimStars, claimChops, resetEpoch, setMerkleRoot, the passing of time)
\* changes a balance starsByEpoch[a][e], adds a StarsClaimed event of e, or
\* changes what fetchEpochPlayers(e) returns, for an epoch e below the
\* current epoch, and neither for the epoch that the step itself closes.
C22_ClosedEpochImmutable ==
    [][\A e \in Epochs :
           e < currentEpoch' =>
               /\ \A a \in Users : starsByEpoch'[a][e] = starsByEpoch[a][e]
               /\ EventsOfEpoch(e)' = EventsOfEpoch(e)
               /\ PlayersOfEpoch(e)' = PlayersOfEpoch(e)]_vars

\* alice has stars of the first epoch, which is closed, has claimed again
\* since and holds stars of the second, and has been paid the Chops of the
\* first
C22_Witness ==
    /\ currentEpoch = FirstEpoch + 1
    /\ starsByEpoch["alice"][FirstEpoch] > 0
    /\ starsByEpoch["alice"][currentEpoch] > 0
    /\ PlayersOfEpoch(FirstEpoch) # <<>>
    /\ hasClaimedChops[FirstEpoch]["alice"]

\* The step is a claimChops transaction
ClaimChopsSent == lastChops' # lastChops /\ lastChops'.acted

\* C30: an address is paid the Chops of an epoch at most once.  A claimed
\* flag, once set, stays set; a claimChops that succeeds finds the flag of
\* its sender and epoch unset, sets it and mints the amount; and a
\* claimChops for an epoch and sender whose flag is set reverts, mints
\* nothing and changes no flag, whatever root the epoch has by then.
C30_ChopsClaimedOnce ==
    [][/\ \A e \in ChopsEpochs, a \in Users :
              hasClaimedChops[e][a] => hasClaimedChops'[e][a]
       /\ ClaimChopsSent =>
              LET e == lastChops'.epoch
                  a == lastChops'.sender
              IN  /\ lastChops'.outcome = "ok" =>
                         /\ ~hasClaimedChops[e][a]
                         /\ hasClaimedChops'[e][a]
                         /\ chopsBalance'[a] =
                                BigAdd(chopsBalance[a], lastChops'.rewardAmount)
                  /\ hasClaimedChops[e][a] =>
                         /\ lastChops'.outcome = "Already claimed for this epoch"
                         /\ chopsBalance' = chopsBalance
                         /\ hasClaimedChops' = hasClaimedChops]_vars

\* alice was paid her 12 of the first epoch, the root of the epoch was
\* replaced by that of the distribution with alice alone, and her claim of
\* the 7 it gives her, with its proof, has been turned away
C30_Witness ==
    /\ lastChops.acted
    /\ lastChops.sender = "alice"
    /\ lastChops.epoch = FirstEpoch
    /\ lastChops.rewardAmount = ParseDecimal(AmountOfRank[2])
    /\ lastChops.outcome = "Already claimed for this epoch"
    /\ epochMerkleRoots[FirstEpoch] = SoleRoot
    /\ ClaimChopsProofValid("alice", FirstEpoch, lastChops.rewardAmount, <<>>)
    /\ hasClaimedChops[FirstEpoch]["alice"]
    /\ chopsBalance["alice"] = ParseDecimal(AmountOfRank[1])

\* The place of the i-th player of the input in the list returned
PlaceOf(i) ==
    CHOOSE k \in 1..Len(calculated.list) :
        calculated.list[k].address = players[i].address

\* C23: calculateRewards returns the players sorted by stars, descending and
\* stable, with rank = place.  What either implementation returns has one
\* entry for each player of the input, with the player's stars; the stars
\* never rise along the list; of two players with equal stars the one that
\* is first in the input is first in the list; the k-th entry has rank k;
\* and the call leaves the input list as it was.
C23_SortedStableRanked ==
    [][calculated' # NoRewards =>
           LET list == calculated'.list
               n == Len(players)
           IN  /\ players' = players
               /\ Len(list) = n
               /\ \A i \in 1..n :
                      Cardinality({ k \in 1..n :
                                      /\ list[k].address = players[i].address
                                      /\ list[k].stars = players[i].stars }) = 1
               /\ \A k \in 1..n : list[k].rank = k
               /\ \A k \in 1..(n - 1) : list[k].stars >= list[k + 1].stars
               /\ \A i, j \in 1..n :
                      (i < j /\ players[i].stars = players[j].stars)
                      => PlaceOf(i)' < PlaceOf(j)']_vars

\* Three players, the second with the most stars and the other two with as
\* many as each other: the second is first, then the first, then the third
C23_Witness ==
    /\ calculated # NoRewards
    /\ Len(players) = 3
    /\ players[1].stars = players[3].stars
    /\ players[1].stars < players[2].stars
    /\ calculated.list[1].address = players[2].address
    /\ calculated.list[2].address = players[1].address
    /\ calculated.list[3].address = players[3].address
    /\ calculated.list[3].rank = 3

\* C25: a single player receives the whole emission.  When the input has
\* one player, either implementation returns one allocation, with that
\* player's address, rank 1 and a rewardAmount of totalEmission * 10^18,
\* whatever the curve exponent and the player's stars.
C25_SolePlayerGetsAll ==
    (calculated # NoRewards /\ Len(players) = 1) =>
        /\ Len(calculated.list) = 1
        /\ calculated.list[1].address = players[1].address
        /\ calculated.list[1].rank = 1
        /\ ParseDecimal(calculated.list[1].rewardAmount) =
               BigMulSmall(TokenScalingFactor, totalEmission)

\* The coordinator has calculated the rewards of a single player with two
\* stars under the default emission and a curve exponent of 2: 10^22
C25_Witness ==
    /\ calculated.by = "coordinator"
    /\ Len(players) = 1
    /\ players[1].stars = 2
    /\ totalEmission = DefaultEmission
    /\ curveExponent = [num |-> 2, den |-> 1]
    /\ calculated.list[1].rewardAmount =
           DecimalString(BigMulSmall(TokenScalingFactor, DefaultEmission))

\* The amount of the k-th allocation
AmountAt(list, k) == ParseDecimal(list[k].rewardAmount)

\* As many players with one star each
OneStarEach(n) == [i \in 1..n |-> [address |-> AddressBook[i], stars |-> 1]]

\* The curve exponents from 1 to 2
SteepExponents == { x \in CurveExponents : x # MinValue }

\* C24, as stated: for every player list and curve exponent above zero the
\* rewardAmount of the coordinator's calculateRewards is strictly decreasing
\* in rank.
C24_StrictlyDecreasing ==
    calculated.by = "coordinator" =>
        \A k \in 1..(Len(calculated.list) - 1) :
            BigLess(AmountAt(calculated.list, k + 1),
                    AmountAt(calculated.list, k))

\* C24, amended: for every player list and curve exponent above zero the
\* rewardAmount of the coordinator's calculateRewards never rises with the
\* rank, and is the amount that rank gets in a list of as many players with
\* one star each, whatever the stars of the list; for the exponents from 1
\* to 2 it is strictly decreasing in rank, also when the players have equal
\* stars.
C24_NonIncreasingByRank ==
    calculated.by = "coordinator" =>
        LET list == calculated.list
        IN  /\ \A k \in 1..(Len(list) - 1) :
                   ~BigLess(AmountAt(list, k), AmountAt(list, k + 1))
            /\ curveExponent \in SteepExponents =>
                   \A k \in 1..(Len(list) - 1) :
                       BigLess(AmountAt(list, k + 1), AmountAt(list, k))
            /\ \A k \in 1..Len(list) :
                   list[k].rewardAmount =
                       CoordinatorCalculateRewards(
                           OneStarEach(Len(players)), totalEmission,
                           curveExponent)[k].rewardAmount

\* The coordinator has calculated the rewards of three players with equal
\* stars under the default curve: three amounts, each below the one before
C24_Witness ==
    /\ calculated.by = "coordinator"
    /\ Len(players) = 3
    /\ players[1].stars = players[2].stars
    /\ players[2].stars = players[3].stars
    /\ curveExponent = DefaultExponent
    /\ BigLess(AmountAt(calculated.list, 2), AmountAt(calculated.list, 1))
    /\ BigLess(AmountAt(calculated.list, 3), AmountAt(calculated.list, 2))

\* The distribution of the players by each of the two programs
CoordinatorDistribution ==
    CoordinatorGenerateMerkleTree(
        CoordinatorCalculateRewards(players, totalEmission, curveExponent))
GeneratorDistribution ==
    GenerateMerkleTree(
        GeneratorCalculateRewards(players, totalEmission, curveExponent))

\* C27: the two programs produce the same distribution.  For the same
\* players, emission and curve exponent, calculateRewards of the coordinator
\* and of the generator script give every address the same rewardAmount, and
\* generateMerkleTree of each gives the same root.
C27_SameRootOnBothPaths ==
    calculated # NoRewards =>
        /\ \A k \in 1..Len(players) :
               CoordinatorDistribution.proofs[k].address =
                   GeneratorDistribution.rewards[k].address
               /\ CoordinatorDistribution.proofs[k].rewardAmount =
                      GeneratorDistribution.rewards[k].rewardAmount
        /\ CoordinatorDistribution.root = GeneratorDistribution.root

(***************************************************************************)
(* Malformed voucher requests, and the start of server.js without the      *)
(* signing key                                                             *)
(***************************************************************************)

\* The request bodies that lack the address, or lack starsEarned, or carry
\* a starsEarned of zero or less
Malformed ==
    { q \in RequestWallets \X RequestStars :
        q[1] = Undefined \/ q[2] = NoStars \/ q[2][1] <= 0 }

\* What a malformed request leaves alone
NothingSigned ==
    /\ signed' = signed
    /\ pending' = pending
    /\ nonceCounter' = nonceCounter

\* Every call of the signer so far had an address and an amount above zero
SignerReachedByValidOnly ==
    \A i \in 1..Len(signed) :
        /\ signed[i].claimant \in Users
        /\ ~(signed[i].voucher.amount <= 0)

C29_KeyAbsentFailsAtStartup ==
    [][\A w \in RequestWallets, a \in RequestStars, r \in RandomDraws :
           ServerClaimStars(w, a, r)
               => /\ serverProcess.signerKey
                  /\ ~signerLoaded
                        => /\ response' = ErrorResponse("server", 503,
                                              "Server initializing, try again")
                           /\ NothingSigned]_vars

(***************************************************************************)
(* The Stars ledger on its own: claims by both players across the cooldown *)
(* and across the end of the epoch, the views, and the transfers           *)
(***************************************************************************)

\* balanceOf(account), totalSupply()
BalanceOf(account) == starsByEpoch[account][currentEpoch]
TotalSupply == totalStarsByEpoch[currentEpoch]

\* cooldownRemaining(user)
CooldownRemaining(user) ==
    LET nextClaimTime == lastClaimTime[user] + cooldownHours * OneHour
    IN  IF now >= nextClaimTime THEN 0 ELSE nextClaimTime - now

Soulbound == "Stars are soulbound and cannot be transferred"

\* transfer as ERC20 has it, without the override: the stars move
TransferMoves(from, to, amount) ==
    /\ lastCall' = [NoCall EXCEPT !.outcome = "transferred"]
    /\ BalanceOf(from) >= amount
    /\ starsByEpoch' =
           [starsByEpoch EXCEPT ![from][currentEpoch] = @ - amount,
                                ![to][currentEpoch] = @ + amount]
    /\ UNCHANGED <<now, currentEpoch, lastResetTimestamp, epochDuration,
                   totalStarsByEpoch, cooldownHours, lastClaimTime, gameSigner,
                   usedNonces, paused, signerVars, credited, offVoucher>>

\* transfer(to, amount) and transferFrom(from, to, amount): revert
Transfer(from, to, amount) ==
    /\ lastCall' = [NoCall EXCEPT !.outcome = Soulbound]
    /\ UNCHANGED <<now, ledgerVars, signerVars, credited, offVoucher>>

\* One second before the end of an hour's cooldown, its end, and the start
\* of each later week
StarsInstants ==
    { DeployTime + OneHour - 1, DeployTime + OneHour } \cup
    { DeployTime + w * SevenDays : w \in 1..MaxWeeks }

\* The claims sent, as <<sender, amount, nonce>> with a voucher just issued
\* for them
StarsClaims ==
    {<<"alice", 1, 1>>, <<"alice", 2, 2>>, <<"alice", 0, 2>>,
     <<"bob", 2, 1>>, <<"bob", 0, 1>>}

\* The claims sent around the end of an epoch
EpochClaims ==
    {<<"alice", 1, 1>>, <<"alice", 2, 2>>, <<"bob", 2, 1>>, <<"bob", 0, 2>>}

\* claimChops of alice's entry of the one-leaf distribution, by either player
StarsChopsCalls ==
    { <<sender, FirstEpoch, ParseDecimal(AmountOfRank[2]), <<>>>> :
          sender \in Users }

StarsInit ==
    /\ now = DeployTime
    /\ LedgerInit
    /\ signerEnv = DeployedEnv
    /\ vouchers = {}
    /\ credited = [k \in Users \X Nonces |-> 0]
    /\ lastCall = NoCall
    /\ EndpointInit
    /\ MerkleIdle
    /\ epochMerkleRoots = [e \in ChopsEpochs |-> ZeroRoot]
    /\ hasClaimedChops = [e \in ChopsEpochs |-> [u \in Users |-> FALSE]]
    /\ chopsContract = ChopsAddress
    /\ chopsMinter = TRUE
    /\ chopsBalance = [u \in Users |-> BigOf(0)]
    /\ lastChops = NoChops
    /\ RewardIdle
    /\ CycleIdle

StarsNext ==
    \/ \E t \in StarsInstants : Tick(t)
    \/ \E claim \in StarsClaims : PlayerClaims(claim[1], claim[2], claim[3])
    \/ ResetEpoch
    \/ \E h \in CooldownChoices : SetCooldownHours(h)
    \/ Pause
    \/ Unpause
    \/ Transfer("alice", "bob", 1)

StarsSpec == StarsInit /\ [][StarsNext]_vars

\* The end of an epoch, reached by claimStars, by claimChops or by resetEpoch
EpochNext ==
    \/ \E t \in WeekStarts : Tick(t)
    \/ \E claim \in EpochClaims : PlayerClaims(claim[1], claim[2], claim[3])
    \/ ResetEpoch
    \/ SetMerkleRoot(FirstEpoch, SoleRoot)
    \/ \E call \in StarsChopsCalls :
           ClaimChops(call[1], call[2], call[3], call[4])
    \/ Transfer("alice", "bob", 1)

EpochSpec == StarsInit /\ [][EpochNext]_vars

\* The StarsClaimed event of the step, if it emits one
ClaimSucceeds == Len(starsClaimed') = Len(starsClaimed) + 1
EventOfStep == starsClaimed'[Len(starsClaimed')]

\* What the step credits to an account: the amount of its event, or nothing
CreditOfStep(account) ==
    IF ClaimSucceeds /\ EventOfStep.user = account
    THEN EventOfStep.amount
    ELSE 0

\* C31: the Stars balances start again from zero when the epoch increments.
\* The epoch moves one at a time and only once its window has elapsed; right
\* after an increment balanceOf(a) is what the very transaction credited to
\* a, which is nothing unless it is a's claimStars, and totalSupply() is
\* their sum, whatever the balances were before.  A claimStars that succeeds
\* at or after lastResetTimestamp + epochDuration advances the epoch and
\* credits the new epoch, leaving the elapsed epoch as it was.
C31_BalancesResetWithEpoch ==
    [][/\ currentEpoch' \in {currentEpoch, currentEpoch + 1}
       /\ currentEpoch' = currentEpoch + 1 =>
              /\ now >= lastResetTimestamp + epochDuration
              /\ lastResetTimestamp' = now
              /\ \A a \in Users : BalanceOf(a)' = CreditOfStep(a)
              /\ TotalSupply' = CreditOfStep("alice") + CreditOfStep("bob")
       /\ (ClaimSucceeds /\ now >= lastResetTimestamp + epochDuration) =>
              /\ currentEpoch' = currentEpoch + 1
              /\ EventOfStep.epoch = currentEpoch'
              /\ \A a \in Users :
                     starsByEpoch'[a][currentEpoch] = starsByEpoch[a][currentEpoch]
              /\ totalStarsByEpoch'[currentEpoch] =
                     totalStarsByEpoch[currentEpoch]]_vars

\* C31 witness: bob's claim at the instant the first window ends has moved
\* the epoch on; alice's star stays in the first epoch and her balance is 0
C31_Witness ==
    /\ lastCall.outcome = "ok"
    /\ lastCall.before[1][1] = FirstEpoch
    /\ currentEpoch = FirstEpoch + 1
    /\ now = DeployTime + SevenDays
    /\ starsByEpoch["alice"][FirstEpoch] = 1
    /\ BalanceOf("alice") = 0
    /\ BalanceOf("bob") = 2
    /\ starsByEpoch["bob"][FirstEpoch] = 0
    /\ TotalSupply = 2

\* The claim of the step is by account and succeeds
ClaimSucceedsFor(account) == ClaimSucceeds /\ EventOfStep.user = account

\* The call is sent before the caller's cooldown has run out
InCooldown(account) == now < lastClaimTime[account] + cooldownHours * OneHour

\* C32: the cooldown.  lastClaimTime[a] changes only by a successful
\* claimStars of a, to the time of that claim, and such a claim comes no
\* sooner than cooldownHours * 3600 seconds after the one before it.  A
\* claimStars sent sooner reverts and leaves nonces, balances and events as
\* they were, with 'Cooldown period not elapsed' when no earlier require
\* turns it away.  And cooldownRemaining(a) is 0 exactly when a claim of a
\* that passes the earlier requires is not turned away for cooldown.
C32_CooldownBetweenClaims ==
    [][/\ \A a \in Users :
              /\ lastClaimTime'[a] # lastClaimTime[a] => ClaimSucceedsFor(a)
              /\ ClaimSucceedsFor(a) =>
                     /\ lastClaimTime'[a] = now
                     /\ now - lastClaimTime[a] >= cooldownHours * OneHour
       /\ \A claim \in StarsClaims :
              PlayerClaims(claim[1], claim[2], claim[3]) =>
                  LET a == claim[1]
                      outcome == lastCall'.outcome
                      passesEarlier == /\ ~paused
                                       /\ claim[2] > 0
                                       /\ ~usedNonces[a][claim[3]]
                  IN  /\ InCooldown(a) =>
                             /\ Rejected(outcome)
                             /\ passesEarlier
                                    => outcome = "Cooldown period not elapsed"
                             /\ UNCHANGED <<ledgerVars, credited, starsClaimed>>
                      /\ passesEarlier =>
                             (CooldownRemaining(a) = 0
                                  <=> outcome # "Cooldown period not elapsed")
                      /\ outcome = "Cooldown period not elapsed"
                             => /\ CooldownRemaining(a) > 0
                                /\ CooldownRemaining(a) =
                                       lastClaimTime[a] + cooldownHours * OneHour
                                           - now]_vars

\* C32 witness: with a cooldown of one hour alice has claimed at the
\* deployment, and her claim one second before the hour is up was turned
\* away with the nonce still unused
C32_Witness ==
    /\ cooldownHours = 1
    /\ lastClaimTime["alice"] = DeployTime
    /\ now = DeployTime + OneHour - 1
    /\ CooldownRemaining("alice") = 1
    /\ lastCall.outcome = "Cooldown period not elapsed"
    /\ usedNonces["alice"] # usedNonces["bob"]
    /\ \E n \in Nonces : ~usedNonces["alice"][n]
    /\ BalanceOf("bob") = 0

\* C33: Stars are soulbound and only minted by claims.  A transfer or
\* transferFrom reverts and leaves the ledger as it was; starsByEpoch[a][e]
\* changes only by a claimStars that a sends itself and that succeeds, for
\* the epoch e current once the call has made its reset, and then it grows
\* by exactly the amount signed; nothing lowers a balance and nothing
\* changes the balance of another address.
C33_SoulboundMintedByClaims ==
    [][/\ (lastCall' # lastCall /\ lastCall'.outcome = Soulbound)
              => UNCHANGED <<ledgerVars, credited, starsClaimed, chopsVars>>
       /\ lastCall'.outcome # "transferred"
       /\ \A a \in Users, e \in Epochs :
              /\ starsByEpoch'[a][e] >= starsByEpoch[a][e]
              /\ starsByEpoch'[a][e] # starsByEpoch[a][e] =>
                     \E claim \in EpochClaims :
                         /\ claim[1] = a
                         /\ PlayerClaims(claim[1], claim[2], claim[3])
                         /\ lastCall'.outcome = "ok"
                         /\ e = currentEpoch'
                         /\ starsByEpoch'[a][e] = starsByEpoch[a][e] + claim[2]
                         /\ \A b \in Users \ {a}, f \in Epochs :
                                starsByEpoch'[b][f] = starsByEpoch[b][f]
                         /\ \A f \in Epochs \ {e} :
                                starsByEpoch'[a][f] = starsByEpoch[a][f]]_vars

\* C33 witness: alice holds a star, bob none, and the transfer of it to bob
\* has just reverted
C33_Witness ==
    /\ lastCall.outcome = Soulbound
    /\ BalanceOf("alice") = 1
    /\ BalanceOf("bob") = 0
    /\ TotalSupply = 1

\* The stars of the accounts in an epoch, added up
RECURSIVE SumOfStars(_, _)
SumOfStars(accounts, e) ==
    IF accounts = {}
    THEN 0
    ELSE LET a == CHOOSE x \in accounts : TRUE
         IN  starsByEpoch[a][e] + SumOfStars(accounts \ {a}, e)

RECURSIVE SumOfBalances(_)
SumOfBalances(accounts) ==
    IF accounts = {}
    THEN 0
    ELSE LET a == CHOOSE x \in accounts : TRUE
         IN  BalanceOf(a) + SumOfBalances(accounts \ {a})

\* C39: in every state of the ledger and for every epoch e,
\* totalStarsByEpoch[e] is the sum of starsByEpoch[a][e] over the addresses;
\* totalSupply() is the sum of balanceOf(a).
C39_TotalIsSumOfBalances ==
    /\ \A e \in Epochs : totalStarsByEpoch[e] = SumOfStars(Users, e)
    /\ TotalSupply = SumOfBalances(Users)

\* C39 witness: both players have stars in the first epoch, alice in the
\* second as well
C39_Witness ==
    /\ currentEpoch = FirstEpoch + 1
    /\ starsByEpoch["alice"][FirstEpoch] = 1
    /\ starsByEpoch["bob"][FirstEpoch] = 2
    /\ totalStarsByEpoch[FirstEpoch] = 3
    /\ BalanceOf("alice") = 2
    /\ TotalSupply = 2

(***************************************************************************)
(* The coordinator's handler: who may start a run, and a run without the   *)
(* signer's key.                                                           *)
(***************************************************************************)
\* The request is a POST whose Authorization header is 'Bearer ' followed by
\* the configured CRON_SECRET
AuthorizedTrigger(method, authHeader) ==
    /\ method = "POST"
    /\ cronEnv.cronSecret # Unset
    /\ authHeader = <<"Bearer " \o cronEnv.cronSecret[1]>>

\* C35: an epoch cycle runs only for an authorized trigger.  A request that
\* is not a POST with the header 'Bearer ' + the configured CRON_SECRET is
\* answered 405 or 401 at once and starts no run: no read of the ledger, no
\* resetEpoch, no write to the store and no set-root transaction follow,
\* whether CRON_SECRET is set or not.
C35_OnlyAuthorizedTrigger ==
    [][\A c \in Coordinators, method \in CronMethods, authHeader \in AuthHeaders :
           (Trigger(c, method, authHeader)
            /\ ~AuthorizedTrigger(method, authHeader))
           => /\ cycle'[c].pc = "idle"
              /\ cycle'[c].status \in {405, 401}]_vars

\* The warning of a run that has no key to publish the root with
MissingKeyWarning ==
    "Merkle root not set on-chain - missing GAME_SIGNER_PRIVATE_KEY"

\* A run of the handler ends with an answer of its own: not refused at the
\* door, and not for a node that could not be reached
AnswersRun(c) ==
    /\ cycle'[c] # cycle[c]
    /\ cycle'[c].pc = "idle"
    /\ cycle'[c].status \notin {405, 401}
    /\ cycle'[c].message # "error"

\* C34: without GAME_SIGNER_PRIVATE_KEY a cycle that finds players still
\* computes the distribution and stores the artifact, sends no set-root
\* transaction and returns a success result with the warning.  A run without
\* the key, in a window that has not elapsed, for a target in which somebody
\* has claimed and for which nothing is stored, ends with status 200 and
\* the warning, the artifact of the target stored and its root not set.
C34_KeylessCycleStoresAndWarns ==
    [][\A c \in Coordinators :
           (/\ AnswersRun(c)
            /\ ~cronEnv.signerKey
            /\ ~WindowElapsed(now - lastResetTimestamp, epochDuration)
            /\ ~NobodyClaimedIn(PreviousEpoch(currentEpoch))
            /\ ~blobs[PreviousEpoch(currentEpoch)].built)
           => /\ cycle'[c].status = 200
              /\ cycle'[c].message = MissingKeyWarning
              /\ blobs'[PreviousEpoch(currentEpoch)].built
              /\ epochMerkleRoots' = epochMerkleRoots]_vars

\* C40: the coordinator never stores an artifact or publishes a root for
\* epoch 0.  A run that reads currentEpoch = 1 in a window that has not
\* elapsed has epoch 0 as its target; no StarsClaimed event has epoch 0, and
\* the run ends with status 200 and 'No players found', with nothing stored
\* and no root set for epoch 0.
C40_FirstEpochCycleFindsNobody ==
    [][\A c \in Coordinators :
           (/\ EndsRun(c)
            /\ cycle[c].currentEpoch = FirstEpoch
            /\ ~ElapsedAtCheck(c))
           => /\ NobodyClaimedIn(PreviousEpoch(FirstEpoch))
              /\ cycle'[c].status = 200
              /\ cycle'[c].message = "No players found"
              /\ blobs' = blobs
              /\ epochMerkleRoots' = epochMerkleRoots]_vars

(***************************************************************************)
(* From the coordinator's allocation list to the Chops minted: the list is *)
(* what calculateRewards returns for the shipped emission and exponent,    *)
(* its tree is built, its root is the only one set for the first epoch,    *)
(* and anybody claims with any entry of the artifact.                      *)
(***************************************************************************)
\* const rewards = calculateRewards(players, TOTAL_EMISSION, CURVE_EXPONENT)
EmissionLists ==
    { CoordinatorCalculateRewards(list, DefaultEmission, DefaultExponent) :
          list \in PlayerLists }

\* The calls: any address, the amount and proof of an entry of the artifact
EmissionCalls ==
    IF artifact.built
    THEN { <<sender, FirstEpoch,
             ParseDecimal(artifact.rewards[i].rewardAmount),
             artifact.rewards[i].proof>> :
               sender \in Players, i \in 1..Len(artifact.rewards) }
    ELSE {}

EmissionInit ==
    /\ now = DeployTime
    /\ LedgerInit
    /\ signerEnv = DeployedEnv
    /\ vouchers = {}
    /\ credited = [k \in Users \X Nonces |-> 0]
    /\ lastCall = NoCall
    /\ EndpointInit
    /\ epochMerkleRoots = [e \in ChopsEpochs |-> ZeroRoot]
    /\ hasClaimedChops = [e \in ChopsEpochs |-> [u \in Players |-> FALSE]]
    /\ chopsContract = ChopsAddress
    /\ chopsMinter = TRUE
    /\ chopsBalance = [u \in Players |-> BigOf(0)]
    /\ lastChops = NoChops
    /\ RewardIdle
    /\ CycleIdle
    /\ allocations \in EmissionLists
    /\ artifact = NoArtifact
    /\ lastVerify = NoVerify

EmissionNext ==
    \/ \E t \in WeekStarts : ChopsTick(t)
    \/ ResetEpoch
    \/ BuildTree("coordinator")
    \/ artifact.built /\ SetMerkleRoot(FirstEpoch, artifact.root)
    \/ \E call \in EmissionCalls :
           ClaimChops(call[1], call[2], call[3], call[4])

EmissionSpec == EmissionInit /\ [][EmissionNext]_vars

\* The Chops minted to the first upTo addresses of the book
RECURSIVE SumOfChops(_)
SumOfChops(upTo) ==
    IF upTo = 0 THEN BigOf(0)
    ELSE BigAdd(SumOfChops(upTo - 1), chopsBalance[AddressBook[upTo]])

\* C38: end to end, the Chops minted for an epoch stay within the emission.
\* With the root of the coordinator's list the only one ever set for the
\* epoch, the total minted through claimChops for it is at most the sum of
\* the list's rewardAmounts and at most totalEmission * 10^18; an address of
\* the list holds nothing or its own listed amount, and an address that is
\* not on the list holds nothing.
C38_MintedWithinEmission ==
    /\ ~BigLess(SumOfRewards(allocations, Len(allocations)),
                SumOfChops(MaxPlayers))
    /\ ~BigLess(BigMulSmall(TokenScalingFactor, totalEmission),
                SumOfChops(MaxPlayers))
    /\ \A u \in Players :
           \/ chopsBalance[u] = BigOf(0)
           \/ Listed(allocations, u, DecimalString(chopsBalance[u]))

====
